---- MODULE Spec2Model ----
(***************************************************************************)
(* A model of the Goose load-test driver (src/src/lib.rs): the weight      *)
(* planner weight_tasks, the per-user run over the plans it builds, and    *)
(* the supervisor loop of launch_users that merges the users' request      *)
(* events into the statistics, and the start-up path through setup and     *)
(* execute that leads to it.                                               *)
(*                                                                         *)
(* Rust vectors are sequences; a Rust index i is position i + 1 here, and  *)
(* the task index stored in a plan stays the 0-based tasks_index.          *)
(***************************************************************************)
EXTENDS Integers, Sequences, FiniteSets, TLC

\* ------------------------------------------------------------------ bounds

\* the most tasks registered in the TaskSet
MaxTasks == 2
\* task weights are drawn from 1..MaxWeight
MaxWeight == 3
\* task sequences are drawn from 0..MaxSequence (0: unsequenced)
MaxSequence == 2
\* the most complete outer iterations of the main plan a user makes before it is stopped
MaxPasses == 2
\* the users weight_task_set_users constructs (configuration.users)
NumUsers == 2
\* the most request events all users together send in a run
MaxEvents == 3
\* the width of usize in the model. The counters are usize, 64 bits on the supported
\* targets; TLC's integers are 32 bits wide, so the model keeps the wrap-around at a
\* narrower width. No counter of a bounded run comes near either limit by counting up.
UsizeBits == 16
\* the most TaskSets registered
MaxTaskSets == 2
\* --run-time is drawn from 0..MaxRunTime seconds (0: run until canceled)
MaxRunTime == 2
\* --hatch-rate is drawn from 0 and the divisors of MaxHatchRate; the model's unit of
\* time is the shortest sleep between two spawns, 1 / MaxHatchRate seconds
MaxHatchRate == 2
\* --users is drawn from 0..MaxUsers where execute is followed up to launch_users
MaxUsers == 4
\* --throttle-requests is drawn from 1..MaxThrottle where the throttle is followed
MaxThrottle == 3
\* "--throttle-requests can not be more than 1,000,000 request per second"
MaxThrottleRequests == 1000000

\* const RUNNING_STATS_EVERY: usize = 15
RUNNING_STATS_EVERY == 15

\* ------------------------------------------------------------------ state

VARIABLES
    pc,                       \* where the main thread is: execute, then launch_users
    tasks,                    \* task_set.tasks of the one TaskSet
    weighted_on_start_tasks,  \* task_set.weighted_on_start_tasks
    weighted_tasks,           \* task_set.weighted_tasks
    weighted_on_stop_tasks,   \* task_set.weighted_on_stop_tasks
    \* one user's run over the three plans
    user_phase,               \* "idle", "on_start", "main", "on_stop" or "exited"
    weighted_bucket,          \* the inner bucket the user is in
    weighted_bucket_position, \* the position in that bucket of the task it runs next
    executions,               \* history: phase -> tasks_index -> times the task body ran
    iteration_log,            \* history: the tasks run in the current outer iteration of main
    passes,                   \* history: the complete outer iterations of main so far
    \* launch_users
    configuration,            \* self.configuration: the options given on the command line
    overflow_checks,          \* the build: whether integer overflow panics (else it wraps)
    attack,                   \* the GooseAttack: test_start_task, test_stop_task, task_sets,
                              \* host, number_of_cpus, run_time, users
    weighted_users,           \* self.weighted_users: the users constructed
    hash,                     \* self.stats.hash
    error,                    \* the GooseError the run ended with, "" while there is none
    option,                   \* the option a GooseError::InvalidOption names, or ""
    elapsed,                  \* self.started.elapsed(), in units of time, counted up to run_time
    canceled,                 \* the flag the ctrl-c handler sets
    clock,                    \* history: the time since execute started the timer
    hatched_for,              \* history: clock when the spawn loop finished
    spawned_at,               \* history: per user, clock when it was spawned
    test_start_runs,          \* history: how often the test_start_task function was run
    test_stop_runs,           \* history: how often the test_stop_task function was run
    logger_thread,            \* the logger thread: "none", "running" or "stopped"
    throttle_thread,          \* the throttle thread: "none", "running" or "stopped"
    users,                    \* self.stats.users: the users spawned so far
    user_state,               \* per user: "constructed", "running", "acquiring" (it waits
                              \* for the throttle), "exited" or "panicked"
    user_channels,            \* per user: the commands sent to it and not yet received
    user_request,             \* per user: the request its task holds, as last classified
    parent_receiver,          \* the fan-in channel: the events sent and not yet received
    requests,                 \* self.stats.requests: key -> GooseRequest
    statistics_reset,         \* the local flag of launch_users
    emitted,                  \* history: per user, the events it sent, in order
    merged,                   \* history: per user, the events of it the supervisor merged, in order
    stats_log,                \* the lines written to the stats log file, in order
    header,                   \* the local flag of launch_users: the csv header is still to write
    throttle_tokens,          \* the number of tokens in the throttle channel
    throttle_window,          \* history: per period of the throttle thread, the latest
                              \* last, whether the channel held a token for each of
                              \* its slots when the period began, and the requests
                              \* admitted in the period
    thread_users,             \* per worker spawned, in order: the weighted_users_index of
                              \* its user and the thread number user_main was given
    statistics_timer,         \* the local timer of launch_users: <<the time since it
                              \* was set>>, counted up to RUNNING_STATS_EVERY seconds;
                              \* <<>> where the running report is not followed
    display_running_statistics, \* the local flag of launch_users
    last_report               \* history: <<>> until a running report is printed, then
                              \* <<the time since the latest one, the time between the
                              \* latest two (<<>> while there is one)>>

planVars == <<tasks, weighted_on_start_tasks, weighted_tasks, weighted_on_stop_tasks>>
runVars == <<user_phase, weighted_bucket, weighted_bucket_position, executions,
             iteration_log, passes>>
userVars == <<user_state, user_channels, user_request, emitted>>
statsVars == <<requests, statistics_reset, merged, stats_log, header>>
attackVars == <<attack, weighted_users, hash, error, option>>
timeVars == <<elapsed, canceled, clock, hatched_for, spawned_at>>
hookVars == <<test_start_runs, test_stop_runs, logger_thread, throttle_thread>>
throttleVars == <<throttle_tokens, throttle_window>>
reportVars == <<statistics_timer, display_running_statistics, last_report>>
loopVars == <<thread_users, reportVars>>
envVars == <<configuration, overflow_checks, attackVars, timeVars, hookVars, throttleVars,
             loopVars>>
launchVars == <<envVars, users, userVars, parent_receiver, statsVars>>
vars == <<pc, planVars, runVars, launchVars>>

\* ------------------------------------------------------------ sequences

\* vec![x; n]
RECURSIVE Repeat(_, _)
Repeat(x, n) == IF n <= 0 THEN <<>> ELSE <<x>> \o Repeat(x, n - 1)

\* how many times x occurs in the sequence s
Count(s, x) == Cardinality({i \in DOMAIN s : s[i] = x})

\* ------------------------------------------------------------ weight_tasks

\* util::gcd: the greatest common divisor of u and v (Euclid's algorithm)
RECURSIVE gcd(_, _)
gcd(u, v) == IF v = 0 THEN u ELSE gcd(v, u % v)

\* the loop variable u after the tasks ts: the gcd of all their weights
RECURSIVE WeightsGcd(_, _)
WeightsGcd(ts, u) ==
    IF ts = <<>> THEN u
    ELSE WeightsGcd(Tail(ts), IF u = 0 THEN Head(ts).weight
                                        ELSE gcd(u, Head(ts).weight))

\* the three phase tests of the ordering loop
IsOnStart(task) == task.on_start
IsOnStop(task) == task.on_stop
\* variant: a stop task is taken for a main task
IsMainIgnoringOnStop(task) == ~task.on_start
IsMain(task) == ~task.on_start /\ ~task.on_stop

\* the tasks the ordering loop hands to each of the three plans, in declaration order
OnStartTasks(ts) == SelectSeq(ts, IsOnStart)
MainTasks(ts) == SelectSeq(ts, IsMain)
OnStopTasks(ts) == SelectSeq(ts, IsOnStop)

\* the entry of a BTreeMap<usize, Vec<GooseTask>> for one sequence value (the
\* unsequenced Vec for 0): the tasks of ts with that sequence, in declaration order
SequenceGroup(ts, sequence) ==
    LET InGroup(task) == task.sequence = sequence
    IN  SelectSeq(ts, InGroup)

\* the keys of the BTreeMap: the sequence values > 0 of the tasks of ts
SequenceKeys(ts) == {ts[i].sequence : i \in {j \in DOMAIN ts : ts[j].sequence > 0}}

\* variant: the weight is dropped: every task is planned once
ReducedWeightDropped(task, u) == 1
\* variant: the weight is not divided by the gcd
ReducedWeightUndivided(task, u) == task.weight
\* let weight = task.weight / u
ReducedWeight(task, u) == task.weight \div u

\* one inner bucket: each task's tasks_index repeated weight times, appended
RECURSIVE WeightBucket(_, _)
WeightBucket(ts, u) ==
    IF ts = <<>> THEN <<>>
    ELSE Repeat(Head(ts).tasks_index, ReducedWeight(Head(ts), u))
             \o WeightBucket(Tail(ts), u)

\* variant: the map is walked from its largest key
LastKey(keys) == CHOOSE x \in keys : \A y \in keys : x >= y
\* BTreeMap::iter() yields the smallest key first
FirstKey(keys) == CHOOSE x \in keys : \A y \in keys : x <= y

\* for (_sequence, tasks) in map.iter(): one bucket per key, in the map's order
RECURSIVE SequencedBuckets(_, _, _)
SequencedBuckets(ts, keys, u) ==
    IF keys = {} THEN <<>>
    ELSE LET k == FirstKey(keys)
         IN  <<WeightBucket(SequenceGroup(ts, k), u)>>
                 \o SequencedBuckets(ts, keys \ {k}, u)

\* variant: the unsequenced bucket is pushed before the sequenced ones
WeightMainTasksUnsequencedFirst(ts, u) ==
    LET unsequenced == WeightBucket(SequenceGroup(MainTasks(ts), 0), u)
    IN  (IF unsequenced # <<>> THEN <<unsequenced>> ELSE <<>>)
            \o SequencedBuckets(MainTasks(ts), SequenceKeys(MainTasks(ts)), u)

\* weighted_tasks: the unsequenced bucket is pushed only when it is not empty
WeightMainTasks(ts, u) ==
    LET unsequenced == WeightBucket(SequenceGroup(MainTasks(ts), 0), u)
    IN  SequencedBuckets(MainTasks(ts), SequenceKeys(MainTasks(ts)), u)
            \o (IF unsequenced # <<>> THEN <<unsequenced>> ELSE <<>>)

\* weighted_on_start_tasks: the unsequenced bucket is always pushed
WeightOnStartTasks(ts, u) ==
    SequencedBuckets(OnStartTasks(ts), SequenceKeys(OnStartTasks(ts)), u)
        \o <<WeightBucket(SequenceGroup(OnStartTasks(ts), 0), u)>>

\* weighted_on_stop_tasks: the unsequenced bucket is always pushed
WeightOnStopTasks(ts, u) ==
    SequencedBuckets(OnStopTasks(ts), SequenceKeys(OnStopTasks(ts)), u)
        \o <<WeightBucket(SequenceGroup(OnStopTasks(ts), 0), u)>>

\* weight_tasks(task_set): (on_start, main, on_stop)
weight_tasks(ts) ==
    LET u == WeightsGcd(ts, 0)
    IN  <<WeightOnStartTasks(ts, u), WeightMainTasks(ts, u), WeightOnStopTasks(ts, u)>>

\* ------------------------------------------------------------ inputs

\* a registered task: register_task numbers the tasks 0, 1, ... in declaration order
TaskChoices ==
    [weight : 1..MaxWeight, sequence : 0..MaxSequence,
     on_start : BOOLEAN, on_stop : BOOLEAN]

WithIndex(s) ==
    [i \in DOMAIN s |->
        [tasks_index |-> i - 1, weight |-> s[i].weight, sequence |-> s[i].sequence,
         on_start |-> s[i].on_start, on_stop |-> s[i].on_stop]]

TaskLists ==
    {WithIndex(s) : s \in UNION {[1..n -> TaskChoices] : n \in 0..MaxTasks}}

\* ------------------------------------------------------------ execute

\* execute: "Apply weights to tasks in each task set"
ApplyWeights ==
    /\ pc = "execute"
    /\ LET plans == weight_tasks(tasks)
       IN  /\ weighted_on_start_tasks' = plans[1]
           /\ weighted_tasks' = plans[2]
           /\ weighted_on_stop_tasks' = plans[3]
    /\ pc' = "weighted"
    /\ UNCHANGED <<tasks, runVars, launchVars>>

Users == 1..NumUsers

\* launch_users has not been entered: nothing is spawned, sent or merged
LaunchIdle ==
    /\ users = 0
    /\ user_state = [u \in Users |-> "constructed"]
    /\ user_channels = [u \in Users |-> <<>>]
    /\ user_request = [u \in Users |-> <<>>]
    /\ parent_receiver = <<>>
    /\ requests = [k \in {} |-> 0]
    /\ statistics_reset = FALSE
    /\ emitted = [u \in Users |-> <<>>]
    /\ merged = [u \in Users |-> <<>>]
    /\ stats_log = <<>>
    /\ header = TRUE

\* the options as they are when none is given, with --users NumUsers
DefaultConfiguration ==
    [no_stats |-> FALSE, status_codes |-> FALSE, reset_stats |-> FALSE, host |-> "",
     hatch_rate |-> 1, users |-> <<NumUsers>>, run_time |-> 0, manager |-> FALSE,
     worker |-> FALSE, debug_log_file |-> FALSE, throttle_requests |-> <<>>,
     only_summary |-> FALSE, stats_log_file |-> FALSE, stats_log_format |-> "json",
     debug_log_format |-> "json"]

\* GooseAttack::initialize, then one TaskSet with a host of its own registered
DefaultAttack ==
    [test_start_task |-> FALSE, test_stop_task |-> FALSE,
     task_sets |-> <<[task_sets_index |-> 0, weight |-> 1, host |-> <<"http://set">>]>>,
     host |-> <<>>, number_of_cpus |-> NumUsers, run_time |-> 0, users |-> 0]

\* GooseAttack::initialize: no user is constructed, GooseStats::default() holds hash 0,
\* nothing has run
AttackIdle ==
    /\ weighted_users = <<>>
    /\ hash = 0
    /\ error = ""
    /\ option = ""
    /\ elapsed = 0
    /\ canceled = FALSE
    /\ clock = 0
    /\ hatched_for = 0
    /\ spawned_at = [u \in Users |-> 0]
    /\ test_start_runs = 0
    /\ test_stop_runs = 0
    /\ logger_thread = "none"
    /\ throttle_thread = "none"
    /\ throttle_tokens = 0
    /\ throttle_window = <<>>
    /\ thread_users = <<>>
    /\ statistics_timer = <<>>
    /\ display_running_statistics = FALSE
    /\ last_report = <<>>

\* no user runs yet
RunIdle ==
    /\ user_phase = "idle"
    /\ weighted_bucket = 1
    /\ weighted_bucket_position = 1
    /\ executions = [p \in {"on_start", "main", "on_stop"} |-> <<>>]
    /\ iteration_log = <<>>
    /\ passes = 0

PlanInit ==
    /\ pc = "execute"
    /\ tasks \in TaskLists
    /\ weighted_on_start_tasks = <<>>
    /\ weighted_tasks = <<>>
    /\ weighted_on_stop_tasks = <<>>
    /\ RunIdle
    /\ configuration = DefaultConfiguration
    /\ overflow_checks = TRUE
    /\ attack = DefaultAttack
    /\ AttackIdle
    /\ LaunchIdle

PlanNext == ApplyWeights

SpecPlan == PlanInit /\ [][PlanNext]_vars

\* ------------------------------------------------------------ setup and execute

\* what launch_users works on: nothing of it changes before launch_users is entered
spawnVars == <<users, userVars, parent_receiver, statsVars>>

\* the hosts a run is given: two that Url::parse accepts for each place a host is set
\* in, and one that it rejects
ValidHosts == {"http://cli", "http://set", "http://default"}
InvalidHost == "not a url"

\* is_valid_host(host).is_ok()
is_valid_host(host) == host \in ValidHosts

\* get_configuration_host: Option<String>, None for the empty --host
get_configuration_host ==
    IF configuration.host = "" THEN <<>> ELSE <<configuration.host>>

\* variant: the TaskSet's host goes before the host of the command line
FirstHostTaskSetFirst(config_host, task_set_host, default_host) ==
    IF task_set_host # <<>> THEN task_set_host
    ELSE IF config_host # <<>> THEN config_host
    ELSE default_host

\* the first host that is set among the three, None when none is
FirstHost(config_host, task_set_host, default_host) ==
    IF config_host # <<>> THEN config_host
    ELSE IF task_set_host # <<>> THEN task_set_host
    ELSE default_host

\* goose::get_base_url: the first host that is set, parsed; an error when none is set
\* or when it does not parse
get_base_url(config_host, task_set_host, default_host) ==
    LET chosen == FirstHost(config_host, task_set_host, default_host)
    IN  IF chosen # <<>> /\ is_valid_host(chosen[1])
          THEN [ok |-> TRUE, url |-> chosen[1]]
          ELSE [ok |-> FALSE, url |-> ""]

\* variant: the function of the hook is not called
HookSkipped(runs) == runs

\* function(&user).await: the function of a test_start_task or test_stop_task ran
HookRun(runs) == runs + 1

\* variant: --only-summary is not looked at
NoStatsRejectsTwo ==
    /\ configuration.no_stats
    /\ configuration.status_codes \/ configuration.stats_log_file

\* setup: "Collecting statistics is required for the following options"
NoStatsRejects ==
    /\ configuration.no_stats
    /\ \/ configuration.status_codes
       \/ configuration.only_summary
       \/ configuration.stats_log_file

\* the formats --stats-log-format and --debug-log-format may name
StatsLogFormats == {"json", "csv", "raw"}
DebugLogFormats == {"json", "raw"}

\* variant: a format is only looked at when it comes with its log file
LogFormatRejectsWithFile(format, file, options) ==
    format # "json" /\ file /\ format \notin options

\* setup: a format that is not json needs its log file and has to be one of the options
LogFormatRejects(format, file, options) ==
    format # "json" /\ (~file \/ format \notin options)

\* the option of the InvalidOption setup returns, "" when it returns none
SetupOption ==
    IF NoStatsRejects THEN "--no-stats"
    ELSE IF LogFormatRejects(configuration.stats_log_format,
                             configuration.stats_log_file, StatsLogFormats)
      THEN "--stats-log-format"
    ELSE IF LogFormatRejects(configuration.debug_log_format,
                             configuration.debug_log_file, DebugLogFormats)
      THEN "--debug-log-format"
    ELSE IF configuration.worker /\ configuration.run_time # 0 THEN "--run-time"
    ELSE IF configuration.worker /\ configuration.users # <<>> THEN "--users"
    ELSE ""

\* setup returns Err(GooseError::InvalidOption)
SetupRejects == SetupOption # ""

\* self.users = match self.configuration.users
SetupUsers ==
    IF configuration.users # <<>> THEN configuration.users[1] ELSE attack.number_of_cpus

\* setup: the options are checked, run_time and users are taken from them
Setup ==
    /\ pc = "setup"
    /\ IF SetupRejects
         THEN /\ pc' = "error"
              /\ error' = "InvalidOption"
              /\ option' = SetupOption
              /\ UNCHANGED attack
         ELSE /\ pc' = "validate"
              /\ attack' = [attack EXCEPT !.run_time = configuration.run_time,
                                          !.users = SetupUsers]
              /\ UNCHANGED <<error, option>>
    /\ UNCHANGED <<planVars, runVars, configuration, overflow_checks, weighted_users,
                   hash, timeVars, hookVars, throttleVars, loopVars, spawnVars>>

\* variant: the limit itself is rejected
ThrottleRejectsTheLimit(throttle_requests) ==
    /\ throttle_requests # <<>>
    /\ throttle_requests[1] = 0 \/ throttle_requests[1] >= MaxThrottleRequests

\* execute: "Validate throttle_requests, which must be a value from 1 to 1,000,000"
ThrottleRejects(throttle_requests) ==
    /\ throttle_requests # <<>>
    /\ throttle_requests[1] = 0 \/ throttle_requests[1] > MaxThrottleRequests

\* variant: a hatch rate of 0 is let through
HatchRateAccepted(hatch_rate) == FALSE

\* execute: "--hatch-rate must be greater than 0, or no users can launch"
HatchRateRejects(hatch_rate) == hatch_rate = 0

\* the option of the InvalidOption the checks of execute end with, "" when they end
\* with none; the options the model has no field for pass their checks
ExecuteOption ==
    IF configuration.manager /\ configuration.worker THEN "--worker"
    ELSE IF configuration.manager /\ configuration.debug_log_file
      THEN "--debug-log-file"
    ELSE IF configuration.manager /\ configuration.throttle_requests # <<>>
      THEN "--throttle-requests"
    ELSE IF ThrottleRejects(configuration.throttle_requests) THEN "--throttle-requests"
    ELSE IF configuration.worker /\ configuration.host # "" THEN "--host"
    ELSE IF configuration.worker /\ configuration.no_stats THEN "--no-stats"
    ELSE IF configuration.worker /\ configuration.only_summary THEN "--only-summary"
    ELSE IF configuration.worker /\ configuration.status_codes THEN "--status-codes"
    ELSE IF HatchRateRejects(configuration.hatch_rate) THEN "--hatch-rate"
    ELSE IF configuration.hatch_rate > 1 /\ configuration.worker THEN "--hatch-rate"
    ELSE IF /\ configuration.host = ""
            /\ ~configuration.worker
            /\ attack.host = <<>>
            /\ \E i \in DOMAIN attack.task_sets : attack.task_sets[i].host = <<>>
      THEN "--host"
    ELSE ""

\* the error the checks of execute end with, "" when they all pass
ExecuteChecks ==
    IF attack.task_sets = <<>> THEN "NoTaskSets"
    ELSE IF ExecuteOption # "" THEN "InvalidOption"
    ELSE ""

\* execute, up to "Apply weights to tasks in each task set"
ExecuteValidate ==
    /\ pc = "validate"
    /\ error' = ExecuteChecks
    /\ option' = IF ExecuteChecks = "InvalidOption" THEN ExecuteOption ELSE ""
    /\ pc' = IF ExecuteChecks = "" THEN "execute" ELSE "error"
    /\ UNCHANGED <<planVars, runVars, configuration, overflow_checks, attack,
                   weighted_users, hash, timeVars, hookVars, throttleVars, loopVars, spawnVars>>

\* the loop variable u after the TaskSets: the gcd of all their weights
RECURSIVE TaskSetsGcd(_, _)
TaskSetsGcd(task_sets, u) ==
    IF task_sets = <<>> THEN u
    ELSE TaskSetsGcd(Tail(task_sets), IF u = 0 THEN Head(task_sets).weight
                                                ELSE gcd(u, Head(task_sets).weight))

\* variant: the weights are not divided by their gcd
RECURSIVE WeightedTaskSetsUndivided(_, _, _)
WeightedTaskSetsUndivided(task_sets, index, u) ==
    IF index >= Len(task_sets) THEN <<>>
    ELSE Repeat(index, task_sets[index + 1].weight)
             \o WeightedTaskSetsUndivided(task_sets, index + 1, u)

\* weighted_task_sets: each TaskSet index, weight / u times
RECURSIVE WeightedTaskSets(_, _, _)
WeightedTaskSets(task_sets, index, u) ==
    IF index >= Len(task_sets) THEN <<>>
    ELSE Repeat(index, task_sets[index + 1].weight \div u)
             \o WeightedTaskSets(task_sets, index + 1, u)

\* GooseUser::new(task_sets_index, base_url, min_wait, max_wait, configuration, hash)
GooseUserNew(task_sets_index, base_url, load_test_hash) ==
    [task_sets_index |-> task_sets_index, base_url |-> base_url,
     load_test_hash |-> load_test_hash]

\* the loop of weight_task_set_users from a position of weighted_task_sets on: a user
\* is pushed, and then the count is compared with self.users
RECURSIVE ConstructUsers(_, _, _)
ConstructUsers(weighted_task_sets, position, constructed) ==
    LET task_set == attack.task_sets[weighted_task_sets[position] + 1]
        base_url == get_base_url(get_configuration_host, task_set.host, attack.host)
        pushed == Append(constructed,
                         GooseUserNew(task_set.task_sets_index, base_url.url, hash))
    IN  IF ~base_url.ok THEN [ok |-> FALSE, users |-> <<>>]
        ELSE IF Len(pushed) >= attack.users THEN [ok |-> TRUE, users |-> pushed]
        ELSE ConstructUsers(weighted_task_sets,
                            (position % Len(weighted_task_sets)) + 1, pushed)

\* weight_task_set_users
weight_task_set_users ==
    LET u == TaskSetsGcd(attack.task_sets, 0)
    IN  ConstructUsers(WeightedTaskSets(attack.task_sets, 0, u), 1, <<>>)

\* execute: "Allocate a state for each of the users we are about to start"
WeightTaskSetUsers ==
    /\ pc = "weighted"
    /\ IF configuration.worker
         THEN /\ pc' = "hash"
              /\ UNCHANGED <<weighted_users, error>>
         ELSE IF weight_task_set_users.ok
                THEN /\ weighted_users' = weight_task_set_users.users
                     /\ pc' = "hash"
                     /\ UNCHANGED error
                ELSE /\ error' = "InvalidHost"
                     /\ pc' = "error"
                     /\ UNCHANGED weighted_users
    /\ UNCHANGED <<planVars, runVars, configuration, overflow_checks, attack, hash,
                   option, timeVars, hookVars, throttleVars, loopVars, spawnVars>>

\* DefaultHasher over self.task_sets: a digest of the TaskSets, in registration order
RECURSIVE Digest(_, _)
Digest(task_sets, h) ==
    IF task_sets = <<>> THEN h
    ELSE Digest(Tail(task_sets),
                (31 * h + Head(task_sets).task_sets_index + Head(task_sets).weight + 1)
                    % (2 ^ UsizeBits))

\* execute, from "Calculate a unique hash for the current load test" on: the timer is
\* started and launch_users is entered, or (the gaggle feature is not compiled in) the
\* manager and the worker end with an error
StartAttack ==
    /\ pc = "hash"
    /\ hash' = Digest(attack.task_sets, 0)
    /\ elapsed' = 0
    /\ IF configuration.manager \/ configuration.worker
         THEN /\ pc' = "error"
              /\ error' = "FeatureNotEnabled"
         ELSE /\ pc' = "launch"
              /\ UNCHANGED error
    /\ UNCHANGED <<planVars, runVars, configuration, overflow_checks, attack,
                   weighted_users, option, canceled, clock, hatched_for, spawned_at,
                   hookVars, throttleVars, loopVars,
                   spawnVars>>

\* the hosts a TaskSet or the GooseAttack is given
HostOptions == {<<>>, <<"http://set">>, <<InvalidHost>>}
DefaultHostOptions == {<<>>, <<"http://default">>, <<InvalidHost>>}

\* register_taskset numbers the TaskSets 0, 1, ... in registration order
TaskSetChoices == [weight : 1..MaxWeight, host : HostOptions]

WithTaskSetsIndex(s) ==
    [i \in DOMAIN s |->
        [task_sets_index |-> i - 1, weight |-> s[i].weight, host |-> s[i].host]]

TaskSetLists ==
    {WithTaskSetsIndex(s) : s \in UNION {[1..n -> TaskSetChoices] : n \in 0..MaxTaskSets}}

\* the options execute is followed on: the host, the users and the mode vary
ExecuteConfigurations ==
    {[DefaultConfiguration EXCEPT !.host = h, !.users = n, !.manager = mode[1],
                                  !.worker = mode[2]] :
        h \in {"", "http://cli", InvalidHost},
        n \in {<<>>} \cup {<<k>> : k \in 0..MaxUsers},
        mode \in BOOLEAN \X BOOLEAN}

\* GooseAttack::initialize, the TaskSets registered and the default host set
ExecuteInit ==
    /\ pc = "setup"
    /\ tasks = <<>>
    /\ weighted_on_start_tasks = <<>>
    /\ weighted_tasks = <<>>
    /\ weighted_on_stop_tasks = <<>>
    /\ RunIdle
    /\ configuration \in ExecuteConfigurations
    /\ overflow_checks = TRUE
    /\ attack \in {[DefaultAttack EXCEPT !.task_sets = ts, !.host = h] :
                        ts \in TaskSetLists, h \in DefaultHostOptions}
    /\ AttackIdle
    /\ LaunchIdle

ExecuteNext ==
    \/ Setup
    \/ ExecuteValidate
    \/ ApplyWeights
    \/ WeightTaskSetUsers
    \/ StartAttack

SpecExecute == ExecuteInit /\ [][ExecuteNext]_vars

\* ------------------------------------------------------------ one user's run

\* the cursor (bucket, position) at or after (b, pos) that names a task of the plan,
\* or bucket Len(plan) + 1 when the plan is exhausted: empty buckets are passed over
RECURSIVE NextCursor(_, _, _)
NextCursor(plan, b, pos) ==
    IF b > Len(plan) THEN <<b, 1>>
    ELSE IF pos <= Len(plan[b]) THEN <<b, pos>>
    ELSE NextCursor(plan, b + 1, 1)

\* the task under the cursor
CursorTask(plan) ==
    LET c == NextCursor(plan, weighted_bucket, weighted_bucket_position)
    IN  plan[c[1]][c[2]]

\* whether the plan has a task at or after the cursor
CursorInPlan(plan) ==
    NextCursor(plan, weighted_bucket, weighted_bucket_position)[1] <= Len(plan)

\* the cursor after the task under it has run
CursorAfterTask(plan) ==
    LET c == NextCursor(plan, weighted_bucket, weighted_bucket_position)
    IN  NextCursor(plan, c[1], c[2] + 1)

\* the task body ran once more in phase p
Executed(p, index) ==
    [executions EXCEPT ![p][index] = @ + 1]

\* on-start phase: the buckets in order, each task of a bucket once, in bucket order
RunOnStartTask ==
    /\ pc = "weighted"
    /\ user_phase = "on_start"
    /\ CursorInPlan(weighted_on_start_tasks)
    /\ executions' = Executed("on_start", CursorTask(weighted_on_start_tasks))
    /\ weighted_bucket' = CursorAfterTask(weighted_on_start_tasks)[1]
    /\ weighted_bucket_position' = CursorAfterTask(weighted_on_start_tasks)[2]
    /\ UNCHANGED <<pc, planVars, user_phase, iteration_log, passes, launchVars>>

\* the on-start plan is exhausted: the main loop starts at its first bucket
EnterMain ==
    /\ pc = "weighted"
    /\ user_phase = "on_start"
    /\ ~CursorInPlan(weighted_on_start_tasks)
    /\ user_phase' = "main"
    /\ weighted_bucket' = 1
    /\ weighted_bucket_position' = 1
    /\ UNCHANGED <<pc, planVars, executions, iteration_log, passes, launchVars>>

\* main phase: the task under the cursor runs; the cursor moves on in the bucket, to
\* the next bucket when the bucket is exhausted, and back to the first bucket after
\* the last one
RunMainTask ==
    /\ pc = "weighted"
    /\ user_phase = "main"
    /\ passes < MaxPasses
    /\ CursorInPlan(weighted_tasks)
    /\ LET index == CursorTask(weighted_tasks)
           next == CursorAfterTask(weighted_tasks)
           first == weighted_bucket = 1 /\ weighted_bucket_position = 1
       IN  /\ executions' = Executed("main", index)
           /\ iteration_log' = IF first THEN <<index>> ELSE Append(iteration_log, index)
           /\ IF next[1] > Len(weighted_tasks)
                 THEN /\ weighted_bucket' = 1
                      /\ weighted_bucket_position' = 1
                      /\ passes' = passes + 1
                 ELSE /\ weighted_bucket' = next[1]
                      /\ weighted_bucket_position' = next[2]
                      /\ passes' = passes
    /\ UNCHANGED <<pc, planVars, user_phase, launchVars>>

\* the stop signal is seen in the check that follows a task body (or at once when
\* there is no main task): the user leaves the main loop
StopMain ==
    /\ pc = "weighted"
    /\ user_phase = "main"
    /\ iteration_log # <<>> \/ weighted_tasks = <<>>
    /\ user_phase' = "on_stop"
    /\ weighted_bucket' = 1
    /\ weighted_bucket_position' = 1
    /\ UNCHANGED <<pc, planVars, executions, iteration_log, passes, launchVars>>

\* on-stop phase: as the on-start phase
RunOnStopTask ==
    /\ pc = "weighted"
    /\ user_phase = "on_stop"
    /\ CursorInPlan(weighted_on_stop_tasks)
    /\ executions' = Executed("on_stop", CursorTask(weighted_on_stop_tasks))
    /\ weighted_bucket' = CursorAfterTask(weighted_on_stop_tasks)[1]
    /\ weighted_bucket_position' = CursorAfterTask(weighted_on_stop_tasks)[2]
    /\ UNCHANGED <<pc, planVars, user_phase, iteration_log, passes, launchVars>>

\* the on-stop plan is exhausted: the user's worker ends
ExitUser ==
    /\ pc = "weighted"
    /\ user_phase = "on_stop"
    /\ ~CursorInPlan(weighted_on_stop_tasks)
    /\ user_phase' = "exited"
    /\ UNCHANGED <<pc, planVars, weighted_bucket, weighted_bucket_position,
                   executions, iteration_log, passes, launchVars>>

\* the TaskSets a user's run is followed on: those whose start tasks are also their
\* stop tasks (the on-stop phase walks its plan exactly as the on-start phase does)
UserTaskChoices == {task \in TaskChoices : task.on_start = task.on_stop}

UserTaskLists ==
    {WithIndex(s) : s \in UNION {[1..n -> UserTaskChoices] : n \in 0..MaxTasks}}

\* a user that is handed the plans of its TaskSet and is about to run
UserInit ==
    /\ pc = "weighted"
    /\ tasks \in UserTaskLists
    /\ weighted_on_start_tasks = weight_tasks(tasks)[1]
    /\ weighted_tasks = weight_tasks(tasks)[2]
    /\ weighted_on_stop_tasks = weight_tasks(tasks)[3]
    /\ user_phase = "on_start"
    /\ weighted_bucket = 1
    /\ weighted_bucket_position = 1
    /\ executions = [p \in {"on_start", "main", "on_stop"} |->
                        [index \in 0..(Len(tasks) - 1) |-> 0]]
    /\ iteration_log = <<>>
    /\ passes = 0
    /\ configuration = DefaultConfiguration
    /\ overflow_checks = TRUE
    /\ attack = DefaultAttack
    /\ AttackIdle
    /\ LaunchIdle

UserNext ==
    \/ RunOnStartTask
    \/ EnterMain
    \/ RunMainTask
    \/ StopMain
    \/ RunOnStopTask
    \/ ExitUser

SpecUser == UserInit /\ [][UserNext]_vars

\* ------------------------------------------------------------ request events

\* what the users' requests are drawn from
Methods == {"GET"}
Names == {"/"}
StatusCodes == {200, 404}
ResponseTimes == {104}

\* a map with no entry
EmptyMap == [k \in {} |-> 0]

\* variant: the map is replaced by one that holds the new entry only
PutAlone(map, k, v) == [x \in {k} |-> v]

\* map with key k set to v
Put(map, k, v) == [x \in DOMAIN map \cup {k} |-> IF x = k THEN v ELSE map[x]]

\* the GooseRawRequest a user builds for a response: a status in the 2xx range is a success
RawRequest(u, method, name, response_time, status_code) ==
    [user |-> u, method |-> method, name |-> name, response_time |-> response_time,
     status_code |-> status_code, success |-> status_code \in 200..299, update |-> FALSE]

\* set_success / set_failure: the request again, reclassified and marked as an update
UpdateOf(request) ==
    [request EXCEPT !.success = ~request.success, !.update = TRUE]

\* let key = format!("{:?} {}", raw_request.method, raw_request.name): the method's
\* Debug form holds no space, so the key determines the pair and the pair the key
Key(raw_request) == <<raw_request.method, raw_request.name>>

\* GooseRequest::new(name, method, 0)
NewGooseRequest ==
    [success_count |-> 0, fail_count |-> 0, response_times |-> EmptyMap,
     min_response_time |-> 0, max_response_time |-> 0, total_response_time |-> 0,
     response_time_counter |-> 0, status_code_counts |-> EmptyMap]

\* match self.stats.requests.get(&key) { Some(m) => m.clone(), None => GooseRequest::new(..) }
GetOrNew(key) == IF key \in DOMAIN requests THEN requests[key] ELSE NewGooseRequest

\* the histogram bucket of a response time: itself below 100, rounded to 10 below
\* 1000, to 100 below 10000, to 1000 from there on
RoundedResponseTime(v) ==
    IF v < 100 THEN v
    ELSE IF v < 1000 THEN ((v + 5) \div 10) * 10
    ELSE IF v < 10000 THEN ((v + 50) \div 100) * 100
    ELSE ((v + 500) \div 1000) * 1000

\* one more in a histogram
Increment(map, k) == Put(map, k, IF k \in DOMAIN map THEN map[k] + 1 ELSE 1)

\* GooseRequest::set_response_time
set_response_time(m, response_time) ==
    [m EXCEPT
        !.response_times = Increment(@, RoundedResponseTime(response_time)),
        !.min_response_time = IF @ = 0 \/ response_time < @ THEN response_time ELSE @,
        !.max_response_time = IF response_time > @ THEN response_time ELSE @,
        !.total_response_time = @ + response_time,
        !.response_time_counter = @ + 1]

\* GooseRequest::set_status_code
set_status_code(m, status_code) ==
    [m EXCEPT !.status_code_counts = Increment(@, status_code)]

\* ------------------------------------------------------------ usize arithmetic

UsizeMax == 2 ^ UsizeBits - 1

\* the outcome of a counter operation: the new value, or a panic
Value(x) == [panic |-> FALSE, value |-> x]
Panic == [panic |-> TRUE, value |-> 0]

\* the outcome of an overflow: a panic in a build with overflow checks, else the
\* wrapped value
Overflow(wrapped) == IF overflow_checks THEN Panic ELSE Value(wrapped)

\* x += 1 on a usize
AddOne(x) == IF x < UsizeMax THEN Value(x + 1) ELSE Overflow(0)

\* x -= 1 on a usize
SubtractOne(x) == IF x > 0 THEN Value(x - 1) ELSE Overflow(UsizeMax)

\* ------------------------------------------------------------ merging an event

\* the outcome of a merge: the GooseRequest to insert, or a panic
Merge(m) == [panic |-> FALSE, request |-> m]
MergePanic == [panic |-> TRUE, request |-> NewGooseRequest]

\* "Handle a statistics update": one count += 1, the other -= 1
MergeUpdate(m, raw_request) ==
    LET s == IF raw_request.success THEN AddOne(m.success_count)
             ELSE SubtractOne(m.success_count)
        f == IF raw_request.success THEN SubtractOne(m.fail_count)
             ELSE AddOne(m.fail_count)
    IN  IF s.panic \/ f.panic THEN MergePanic
        ELSE Merge([m EXCEPT !.success_count = s.value, !.fail_count = f.value])

\* "Store a new statistic"
MergeNew(m, raw_request) ==
    LET timed == set_response_time(m, raw_request.response_time)
        coded == IF configuration.status_codes
                   THEN set_status_code(timed, raw_request.status_code)
                   ELSE timed
        s == IF raw_request.success THEN AddOne(coded.success_count)
             ELSE Value(coded.success_count)
        f == IF raw_request.success THEN Value(coded.fail_count)
             ELSE AddOne(coded.fail_count)
    IN  IF s.panic \/ f.panic THEN MergePanic
        ELSE Merge([coded EXCEPT !.success_count = s.value, !.fail_count = f.value])

\* the periodic sync's merge of one received event
SyncMerge(m, raw_request) ==
    IF raw_request.update THEN MergeUpdate(m, raw_request)
    ELSE MergeNew(m, raw_request)

\* the final drain's merge of one received event: the update flag is not looked at
DrainMerge(m, raw_request) == MergeNew(m, raw_request)

\* a receive that takes the newest message instead
TryRecvNewest(channel) == channel[Len(channel)]

\* parent_receiver.try_recv() of a channel that holds a message: the oldest one
try_recv(channel) == Head(channel)

\* the header line of the csv format
CsvHeader == [format |-> "csv header"]

\* prepare_csv: the row of the request, after the header when it is still to write
prepare_csv(raw_request, h) ==
    [lines |-> IF h THEN <<CsvHeader, [format |-> "csv", raw_request |-> raw_request]>>
               ELSE <<[format |-> "csv", raw_request |-> raw_request]>>,
     header |-> FALSE]

\* formatted_log: the lines one message is logged as in the format of
\* --stats-log-format, and the header flag afterwards
FormattedLog(raw_request, h) ==
    IF configuration.stats_log_format = "csv" THEN prepare_csv(raw_request, h)
    ELSE [lines |-> <<[format |-> configuration.stats_log_format,
                       raw_request |-> raw_request]>>,
          header |-> h]

\* self.stats.requests.insert(key, merge_request), or the panic of an overflow
Merged(outcome, raw_request) ==
    IF outcome.panic
      THEN /\ pc' = "panicked"
           /\ UNCHANGED <<requests, merged>>
      ELSE /\ pc' = pc
           /\ requests' = Put(requests, Key(raw_request), outcome.request)
           /\ merged' = [merged EXCEPT ![raw_request.user] = Append(@, raw_request)]

\* ------------------------------------------------------------ the throttle

\* variant: the loop starts from 0 and fills every slot
PreFilledFromZero(throttle_requests) == throttle_requests

\* for _ in 1..throttle_requests { sender.send(true) }: all but one slot are filled
PreFilled(throttle_requests) == throttle_requests - 1

\* variant: the channel is not bounded
ChannelNeverFull(tokens, throttle_requests) == FALSE

\* mpsc::channel(throttle_requests): a send waits while the channel holds that many
ChannelFull(tokens, throttle_requests) == tokens >= throttle_requests

\* the throttle is saturated: the channel holds a token for every one of its
\* throttle_requests slots
Saturated == throttle_tokens >= configuration.throttle_requests[1]

\* the throttle channel has no free slot
ThrottleFull == ChannelFull(throttle_tokens, configuration.throttle_requests[1])

\* the periods of the throttle thread a second touches: throttle_requests whole
\* ones, and the instants at both ends
PeriodsInASecond == configuration.throttle_requests[1] + 1

\* the last n elements of a sequence
Last(s, n) == IF Len(s) <= n THEN s ELSE SubSeq(s, Len(s) - n + 1, Len(s))

\* a request is admitted: its token is in the channel
Admit ==
    /\ throttle_tokens' = throttle_tokens + 1
    /\ throttle_window' =
           [throttle_window EXCEPT ![Len(throttle_window)].admitted = @ + 1]

\* ------------------------------------------------------------ the users

\* what a step of a user at the throttle leaves alone
UserThrottleUnchanged ==
    UNCHANGED <<pc, planVars, runVars, configuration, overflow_checks, attackVars,
                timeVars, hookVars, loopVars, users, user_request, emitted,
                parent_receiver, statsVars>>

\* a user is about to make a request and the throttle channel has a free slot: it
\* puts its token and goes on
UserThrottleSend(u) ==
    /\ throttle_thread # "none"
    /\ user_state[u] = "running"
    /\ ~ThrottleFull
    /\ Admit
    /\ UNCHANGED <<user_state, user_channels>>
    /\ UserThrottleUnchanged

\* the channel is full: the user is suspended
UserThrottleWait(u) ==
    /\ throttle_thread # "none"
    /\ user_state[u] = "running"
    /\ ThrottleFull
    /\ user_state' = [user_state EXCEPT ![u] = "acquiring"]
    /\ UNCHANGED <<user_channels, throttleVars>>
    /\ UserThrottleUnchanged

\* a slot is free again: a suspended user puts its token and goes on
UserThrottleResume(u) ==
    /\ user_state[u] = "acquiring"
    /\ ~ThrottleFull
    /\ Admit
    /\ user_state' = [user_state EXCEPT ![u] = "running"]
    /\ UNCHANGED user_channels
    /\ UserThrottleUnchanged

\* the task body of a user panics: the panic ends the worker of that user, and of
\* that user only
UserPanic(u) ==
    /\ user_state[u] = "running"
    /\ user_state' = [user_state EXCEPT ![u] = "panicked"]
    /\ UNCHANGED <<user_channels, throttleVars>>
    /\ UserThrottleUnchanged

\* a suspended user is cancelled by the EXIT it was sent
UserThrottleCancel(u) ==
    /\ user_state[u] = "acquiring"
    /\ user_channels[u] # <<>>
    /\ user_channels' = [user_channels EXCEPT ![u] = Tail(@)]
    /\ user_state' = [user_state EXCEPT ![u] = "exited"]
    /\ UNCHANGED throttleVars
    /\ UserThrottleUnchanged

\* the events the users 1..n have sent
RECURSIVE EmittedBy(_)
EmittedBy(n) == IF n = 0 THEN 0 ELSE Len(emitted[n]) + EmittedBy(n - 1)

TotalEmitted == EmittedBy(NumUsers)

\* self.parent.send(raw_request)
SendToParent(u, raw_request) ==
    /\ parent_receiver' = Append(parent_receiver, raw_request)
    /\ emitted' = [emitted EXCEPT ![u] = Append(@, raw_request)]

\* a running user's task gets a response: the request event is sent to the parent
\* a user makes a request of one of the names, and sends it to the parent
UserSendRequestNamed(u, names) ==
    /\ user_state[u] = "running"
    /\ TotalEmitted < MaxEvents
    /\ \E method \in Methods, name \in names, response_time \in ResponseTimes,
          status_code \in StatusCodes :
          LET raw_request == RawRequest(u, method, name, response_time, status_code)
          IN  /\ SendToParent(u, raw_request)
              /\ user_request' = [user_request EXCEPT ![u] = <<raw_request>>]
    /\ UNCHANGED <<pc, planVars, runVars, envVars, users,
                   user_state, user_channels, statsVars>>

UserSendRequest(u) == UserSendRequestNamed(u, Names)

\* a running user's task reclassifies the request it holds: an update event is sent
UserSendUpdate(u) ==
    /\ user_state[u] = "running"
    /\ TotalEmitted < MaxEvents
    /\ user_request[u] # <<>>
    /\ LET raw_request == UpdateOf(user_request[u][1])
       IN  /\ SendToParent(u, raw_request)
           /\ user_request' = [user_request EXCEPT ![u] = <<raw_request>>]
    /\ UNCHANGED <<pc, planVars, runVars, envVars, users,
                   user_state, user_channels, statsVars>>

\* a running user receives EXIT in the check that follows a task, and its worker ends
UserExit(u) ==
    /\ user_state[u] = "running"
    /\ user_channels[u] # <<>>
    /\ user_channels' = [user_channels EXCEPT ![u] = Tail(@)]
    /\ user_state' = [user_state EXCEPT ![u] = "exited"]
    /\ UNCHANGED <<pc, planVars, runVars, envVars, users,
                   user_request, emitted, parent_receiver, statsVars>>

\* ------------------------------------------------------------ launch_users

\* the smaller of two numbers
Min(a, b) == IF a <= b THEN a ELSE b

\* a second, in the model's unit of time
TicksPerSecond == MaxHatchRate

\* self.run_time, in the model's unit of time
RunTimeTicks == attack.run_time * TicksPerSecond

\* variant: the spawn loop sleeps a second, whatever the hatch rate
SleepASecond == TicksPerSecond

\* sleep_duration = 1 / hatch_rate seconds, in the model's unit of time
SleepTicks == TicksPerSecond \div configuration.hatch_rate

\* util::timer_expired(self.started, self.run_time): a run time is set and that many
\* seconds have passed since the timer was started
timer_expired == attack.run_time > 0 /\ elapsed >= RunTimeTicks

\* started.elapsed() after a sleep; the timer is followed up to the run time, which is
\* all that timer_expired tells apart
Later(timer, ticks) == Min(timer + ticks, RunTimeTicks)

\* RUNNING_STATS_EVERY seconds, in units of time
ReportTicks == RUNNING_STATS_EVERY * TicksPerSecond

\* statistics_timer = time::Instant::now(), where the running report is followed
Restarted(timer) == IF timer = <<>> THEN <<>> ELSE <<0>>

\* the timer after ticks more units of time, counted up to RUNNING_STATS_EVERY seconds
Running(timer, ticks) ==
    IF timer = <<>> THEN <<>> ELSE <<Min(timer[1] + ticks, ReportTicks)>>

\* variant: the report is due in every pass of the loop
DisplayDueAlways(c) == ~c.only_summary /\ ~c.worker /\ statistics_timer # <<>>

\* !only_summary && !worker && util::timer_expired(statistics_timer, RUNNING_STATS_EVERY)
DisplayDue(c) ==
    /\ ~c.only_summary
    /\ ~c.worker
    /\ statistics_timer # <<>>
    /\ statistics_timer[1] >= ReportTicks

\* self.stats.print_running(): one more running report is printed
PrintRunning(report) ==
    IF report = <<>> THEN <<0, <<>>>> ELSE <<0, <<report[1]>>>>

\* the loop sleeps a second: the latest report is a second older
Ticked(report) ==
    IF report = <<>> THEN <<>>
    ELSE <<Min(report[1] + TicksPerSecond, ReportTicks), report[2]>>

\* the first part of launch_users (stand-alone): the test_start_task runs, if one is
\* defined, with a user made for the host of the command line or the default host
RunTestStart ==
    /\ pc = "launch"
    /\ IF ~configuration.worker /\ attack.test_start_task
         THEN IF get_base_url(get_configuration_host, <<>>, attack.host).ok
                THEN /\ test_start_runs' = HookRun(test_start_runs)
                     /\ pc' = "logger"
                     /\ UNCHANGED error
                ELSE /\ pc' = "error"
                     /\ error' = "InvalidHost"
                     /\ UNCHANGED test_start_runs
         ELSE /\ pc' = "logger"
              /\ UNCHANGED <<test_start_runs, error>>
    /\ UNCHANGED <<planVars, runVars, configuration, overflow_checks, attack,
                   weighted_users, hash, option, timeVars, test_stop_runs, logger_thread,
                   throttle_thread, throttleVars, loopVars, spawnVars>>

\* setup_logger: "If enabled, spawn a logger thread"
SetupLogger ==
    /\ pc = "logger"
    /\ logger_thread' = IF configuration.debug_log_file THEN "running" ELSE "none"
    /\ pc' = "throttle"
    /\ UNCHANGED <<planVars, runVars, configuration, overflow_checks, attackVars,
                   timeVars, test_start_runs, test_stop_runs, throttle_thread,
                   throttleVars, loopVars, spawnVars>>

\* the throttle thread, every 1 / throttle_requests seconds: one token leaves the
\* channel, if there is one
ThrottleDrain ==
    /\ throttle_thread = "running"
    /\ pc \in {"spawn", "sync", "trigger", "join"}
    /\ throttle_tokens' = IF throttle_tokens > 0 THEN throttle_tokens - 1 ELSE 0
    /\ throttle_window' =
           Last(Append(throttle_window, [saturated |-> Saturated, admitted |-> 0]),
                PeriodsInASecond)
    /\ UNCHANGED <<pc, planVars, runVars, configuration, overflow_checks, attackVars,
                   timeVars, hookVars, loopVars, spawnVars>>

\* setup_throttle: "If enabled, spawn a throttle thread"; then the channels are made
SetupThrottle ==
    /\ pc = "throttle"
    /\ IF configuration.throttle_requests # <<>>
         THEN /\ throttle_thread' = "running"
              /\ throttle_tokens' = PreFilled(configuration.throttle_requests[1])
              /\ throttle_window' = <<[saturated |-> FALSE, admitted |-> 0]>>
         ELSE /\ throttle_thread' = "none"
              /\ UNCHANGED throttleVars
    /\ UNCHANGED loopVars
    /\ pc' = "spawn"
    /\ UNCHANGED <<planVars, runVars, configuration, overflow_checks, attackVars,
                   timeVars, test_start_runs, test_stop_runs, logger_thread, spawnVars>>

\* the spawn loop: the timer has not expired, the next user of weighted_users is
\* spawned with its channel, then the loop sleeps sleep_duration
\* thread_user.weighted_users_index = self.stats.users
WeightedUsersIndex(spawned) == spawned

\* variant: the thread numbers count from 0, as the indexes do
ThreadNumberFromZero(spawned) == spawned

\* let thread_number = self.stats.users + 1
ThreadNumber(spawned) == spawned + 1

SpawnUser ==
    /\ pc = "spawn"
    /\ users < Len(weighted_users)
    /\ ~timer_expired
    /\ user_state' = [user_state EXCEPT ![users + 1] = "running"]
    /\ users' = users + 1
    /\ spawned_at' = [spawned_at EXCEPT ![users + 1] = clock]
    /\ thread_users' = Append(thread_users,
                              [weighted_users_index |-> WeightedUsersIndex(users),
                               thread_number |-> ThreadNumber(users)])
    /\ clock' = clock + SleepTicks
    /\ elapsed' = Later(elapsed, SleepTicks)
    /\ UNCHANGED <<pc, planVars, runVars, configuration, overflow_checks, attackVars,
                   canceled, hatched_for, hookVars, throttleVars, reportVars, user_channels, user_request, emitted,
                   parent_receiver, statsVars>>

\* variant: the timer goes on from the start of execute
TimerKept(timer) == timer

\* "Restart the timer now that all threads are launched": self.started = now
TimerRestarted(timer) == 0

\* the spawn loop ends, with all users spawned or because the run timer expired; the
\* timer is restarted, the ctrl-c handler is set up and the main loop is entered
FinishSpawn ==
    /\ pc = "spawn"
    /\ users = Len(weighted_users) \/ timer_expired
    /\ pc' = "sync"
    /\ elapsed' = TimerRestarted(elapsed)
    /\ hatched_for' = clock
    /\ statistics_reset' = FALSE
    /\ statistics_timer' = Restarted(statistics_timer)
    /\ display_running_statistics' = FALSE
    /\ UNCHANGED <<planVars, runVars, configuration, overflow_checks, attackVars,
                   canceled, clock, spawned_at, hookVars, throttleVars, thread_users, last_report, users, userVars,
                   parent_receiver, requests, merged, stats_log, header>>

\* where util::setup_ctrlc_handler has been called: from the main loop on
HandlerInstalled == pc \in {"sync", "trigger", "join", "drain", "test_stop"}

\* the process is interrupted (ctrl-c): the handler sets the flag; while no handler is
\* set up the signal has its default effect and the process is terminated
Interrupt ==
    /\ pc \notin {"done", "error", "panicked", "killed"}
    /\ ~canceled
    /\ IF HandlerInstalled
         THEN /\ canceled' = TRUE
              /\ UNCHANGED pc
         ELSE /\ pc' = "killed"
              /\ UNCHANGED canceled
    /\ UNCHANGED <<planVars, runVars, configuration, overflow_checks, attackVars,
                   elapsed, clock, hatched_for, spawned_at, hookVars, throttleVars, loopVars, spawnVars>>

\* the sync loop receives a message and merges it
\* variant: a failed write ends launch_users with the error, as file.write(..).await?
\* would
WriteReturns(written) == ~written

\* match file.write(..).await { Ok(_) => (), Err(e) => warn!(..) }: after either arm
\* launch_users goes on
WriteAborts(written) == FALSE

\* match self.configuration.stats_log_format.as_str(): the arm _ => unreachable!()
\* is the one taken for a format that is not json, csv or raw
Unreachable(format) == format \notin StatsLogFormats

\* one message is received in the periodic sync: it is formatted, written to the
\* stats log when there is one (the write succeeds or fails) and merged
SyncReceived(written) ==
    /\ pc = "sync"
    /\ ~configuration.no_stats
    /\ parent_receiver # <<>>
    /\ LET raw_request == try_recv(parent_receiver)
           formatted_log == FormattedLog(raw_request, header)
       IN  IF Unreachable(configuration.stats_log_format)
             THEN /\ pc' = "panicked"
                  /\ UNCHANGED <<error, statsVars>>
             ELSE /\ header' = formatted_log.header
                  /\ stats_log' = IF configuration.stats_log_file /\ written
                                     THEN stats_log \o formatted_log.lines
                                     ELSE stats_log
                  /\ IF configuration.stats_log_file /\ WriteAborts(written)
                       THEN /\ pc' = "error"
                            /\ error' = "Io"
                            /\ UNCHANGED <<requests, merged>>
                       ELSE /\ error' = error
                            /\ Merged(SyncMerge(GetOrNew(Key(raw_request)), raw_request),
                                      raw_request)
    /\ parent_receiver' = Tail(parent_receiver)
    /\ UNCHANGED <<planVars, runVars, configuration, overflow_checks, attack,
                   weighted_users, hash, option, timeVars, hookVars, throttleVars,
                   loopVars, users, userVars, statistics_reset>>

\* a message is received, and the write to the stats log, if there is one, succeeds
SyncReceive == SyncReceived(TRUE)

\* a message is received, and the write to the stats log fails
SyncWriteFailed ==
    /\ configuration.stats_log_file
    /\ SyncReceived(FALSE)

\* the receiver queue is empty (or statistics are off): the sync ends, and the
\* statistics are flushed if reset_stats asks for it and it has not been done
SyncEmpty ==
    /\ pc = "sync"
    /\ configuration.no_stats \/ parent_receiver = <<>>
    /\ IF ~configuration.no_stats /\ DisplayDue(configuration)
         THEN /\ statistics_timer' = Restarted(statistics_timer)
              /\ display_running_statistics' = TRUE
         ELSE UNCHANGED <<statistics_timer, display_running_statistics>>
    /\ IF ~configuration.no_stats /\ configuration.reset_stats /\ ~statistics_reset
         THEN /\ requests' = EmptyMap
              /\ statistics_reset' = TRUE
         ELSE UNCHANGED <<requests, statistics_reset>>
    /\ pc' = "trigger"
    /\ UNCHANGED <<planVars, runVars, configuration, overflow_checks, attackVars,
                   timeVars, hookVars, throttleVars, thread_users, last_report,
                   users, userVars, parent_receiver, merged, stats_log, header>>

\* variant: EXIT is not sent
SendNothing(channel) == channel

\* variant: EXIT is sent twice
SendExitTwice(channel) == Append(Append(channel, "EXIT"), "EXIT")

\* send_to_user.send(GooseUserCommand::EXIT)
SendExit(channel) == Append(channel, "EXIT")

\* a thread that was spawned is told to stop
Stopped(thread) == IF thread = "running" THEN "stopped" ELSE thread

\* the worker of user u has ended: it has exited on EXIT, or its task has panicked
Terminated(u) == user_state[u] \in {"exited", "panicked"}

\* variant: the loop over the user channels ends at the first send that fails
TellUsersUntilFailure(channels) ==
    [u \in Users |->
        IF u <= users /\ \A v \in 1..u : user_state[v] # "panicked"
          THEN SendExit(channels[u])
          ELSE channels[u]]

\* for send_to_user in user_channels: EXIT is sent; the send to a worker that has
\* panicked fails (its receiver is gone), which is logged, and the loop goes on
TellUsersToExit(channels) ==
    [u \in Users |->
        IF u <= users /\ user_state[u] # "panicked" THEN SendExit(channels[u])
        ELSE channels[u]]

\* variant: the logger thread is told to stop where the throttle thread is
StoppedWithThrottle(thread) == Stopped(thread)

\* the logger thread when EXIT has been sent: its turn comes after the join
LeftRunning(thread) == thread

\* the run timer has expired or the run is canceled: EXIT is sent to every user
\* channel, and the throttle thread is told that the load test is over
TriggerShutdown ==
    /\ pc = "trigger"
    /\ timer_expired \/ canceled
    /\ user_channels' = TellUsersToExit(user_channels)
    /\ throttle_thread' = Stopped(throttle_thread)
    /\ logger_thread' = LeftRunning(logger_thread)
    /\ pc' = "join"
    /\ UNCHANGED <<planVars, runVars, configuration, overflow_checks, attackVars,
                   timeVars, test_start_runs, test_stop_runs,
                   throttleVars, loopVars, users, user_state, user_request, emitted,
                   parent_receiver, statsVars>>

\* neither: the loop sleeps a second and syncs again
Sleep ==
    /\ pc = "trigger"
    /\ ~(timer_expired \/ canceled)
    /\ display_running_statistics' = FALSE
    /\ last_report' = IF display_running_statistics
                        THEN Ticked(PrintRunning(last_report))
                        ELSE Ticked(last_report)
    /\ statistics_timer' = Running(statistics_timer, TicksPerSecond)
    /\ pc' = "sync"
    /\ elapsed' = Later(elapsed, TicksPerSecond)
    /\ clock' = Min(clock + TicksPerSecond, hatched_for + RunTimeTicks)
    /\ UNCHANGED <<planVars, runVars, configuration, overflow_checks, attackVars,
                   canceled, hatched_for, spawned_at, hookVars, throttleVars, thread_users, spawnVars>>

\* futures::future::join_all(users): every spawned user has exited; then the logger
\* thread is told to flush and exit
JoinUsers ==
    /\ pc = "join"
    /\ \A u \in Users : u <= users => Terminated(u)
    /\ logger_thread' = Stopped(logger_thread)
    /\ pc' = "drain"
    /\ UNCHANGED <<planVars, runVars, configuration, overflow_checks, attackVars,
                   timeVars, test_start_runs, test_stop_runs, throttle_thread,
                   throttleVars, loopVars, spawnVars>>

\* the final drain receives a message and merges it
DrainReceive ==
    /\ pc = "drain"
    /\ ~configuration.no_stats
    /\ parent_receiver # <<>>
    /\ LET raw_request == try_recv(parent_receiver)
       IN  Merged(DrainMerge(GetOrNew(Key(raw_request)), raw_request), raw_request)
    /\ parent_receiver' = Tail(parent_receiver)
    /\ UNCHANGED <<planVars, runVars, envVars, users, userVars,
                   statistics_reset, stats_log, header>>

\* the receiver queue is empty (or statistics are off): the main loop is left
DrainEmpty ==
    /\ pc = "drain"
    /\ configuration.no_stats \/ parent_receiver = <<>>
    /\ pc' = "test_stop"
    /\ UNCHANGED <<planVars, runVars, launchVars>>

\* the last part of launch_users (stand-alone): the test_stop_task runs, if one is
\* defined, with a user made for the host of the command line or the default host;
\* launch_users returns the GooseAttack with its statistics
RunTestStop ==
    /\ pc = "test_stop"
    /\ IF ~configuration.worker /\ attack.test_stop_task
         THEN IF get_base_url(get_configuration_host, <<>>, attack.host).ok
                THEN /\ test_stop_runs' = HookRun(test_stop_runs)
                     /\ pc' = "done"
                     /\ UNCHANGED error
                ELSE /\ pc' = "error"
                     /\ error' = "InvalidHost"
                     /\ UNCHANGED test_stop_runs
         ELSE /\ pc' = "done"
              /\ UNCHANGED <<test_stop_runs, error>>
    /\ UNCHANGED <<planVars, runVars, configuration, overflow_checks, attack,
                   weighted_users, hash, option, timeVars, test_start_runs, logger_thread,
                   throttle_thread, throttleVars, loopVars, spawnVars>>

\* the configurations setup accepts: --no-stats forbids --status-codes
Configurations ==
    {c \in {[DefaultConfiguration EXCEPT !.no_stats = o[1], !.status_codes = o[2],
                                         !.reset_stats = o[3]] :
                o \in BOOLEAN \X BOOLEAN \X BOOLEAN} :
        c.no_stats => ~c.status_codes}

\* launch_users is at its spawn loop: the weights are applied, NumUsers users are
\* constructed for the one TaskSet, no hook is defined and no run time set
Init ==
    /\ pc = "spawn"
    /\ tasks = <<>>
    /\ weighted_on_start_tasks = weight_tasks(<<>>)[1]
    /\ weighted_tasks = weight_tasks(<<>>)[2]
    /\ weighted_on_stop_tasks = weight_tasks(<<>>)[3]
    /\ RunIdle
    /\ configuration \in Configurations
    /\ overflow_checks \in BOOLEAN
    /\ attack = [DefaultAttack EXCEPT !.users = NumUsers]
    /\ weighted_users = [k \in 1..NumUsers |-> GooseUserNew(0, "http://set", 0)]
    /\ hash = Digest(attack.task_sets, 0)
    /\ error = ""
    /\ option = ""
    /\ elapsed = 0
    /\ canceled = FALSE
    /\ clock = 0
    /\ hatched_for = 0
    /\ spawned_at = [u \in Users |-> 0]
    /\ test_start_runs = 0
    /\ test_stop_runs = 0
    /\ logger_thread = "none"
    /\ throttle_thread = "none"
    /\ throttle_tokens = 0
    /\ throttle_window = <<>>
    /\ thread_users = <<>>
    /\ statistics_timer = <<>>
    /\ display_running_statistics = FALSE
    /\ last_report = <<>>
    /\ LaunchIdle

Next ==
    \/ SpawnUser
    \/ FinishSpawn
    \/ SyncReceive
    \/ SyncEmpty
    \/ TriggerShutdown
    \/ Sleep
    \/ JoinUsers
    \/ DrainReceive
    \/ DrainEmpty
    \/ RunTestStop
    \/ Interrupt
    \/ \E u \in Users : UserSendRequest(u)
    \/ \E u \in Users : UserSendUpdate(u)
    \/ \E u \in Users : UserExit(u)

Spec == Init /\ [][Next]_vars

\* the names of the requests of a load test with two endpoints
Endpoints == {"/", "/about"}

\* statistics on, with or without the status codes, without a stats log file or with
\* one in each format
MergeConfigurations ==
    {[DefaultConfiguration EXCEPT !.status_codes = o[1], !.stats_log_file = o[2],
                                  !.stats_log_format = o[3]] :
        o \in {x \in BOOLEAN \X BOOLEAN \X StatsLogFormats : x[2] \/ x[3] = "json"}}

\* launch_users with one user that makes requests of two endpoints
MergeInit ==
    /\ pc = "spawn"
    /\ tasks = <<>>
    /\ weighted_on_start_tasks = weight_tasks(<<>>)[1]
    /\ weighted_tasks = weight_tasks(<<>>)[2]
    /\ weighted_on_stop_tasks = weight_tasks(<<>>)[3]
    /\ RunIdle
    /\ configuration \in MergeConfigurations
    /\ overflow_checks = TRUE
    /\ attack = [DefaultAttack EXCEPT !.users = 1]
    /\ weighted_users = <<GooseUserNew(0, "http://set", 0)>>
    /\ hash = Digest(attack.task_sets, 0)
    /\ error = ""
    /\ option = ""
    /\ elapsed = 0
    /\ canceled = FALSE
    /\ clock = 0
    /\ hatched_for = 0
    /\ spawned_at = [u \in Users |-> 0]
    /\ test_start_runs = 0
    /\ test_stop_runs = 0
    /\ logger_thread = "none"
    /\ throttle_thread = "none"
    /\ throttle_tokens = 0
    /\ throttle_window = <<>>
    /\ thread_users = <<>>
    /\ statistics_timer = <<>>
    /\ display_running_statistics = FALSE
    /\ last_report = <<>>
    /\ LaunchIdle

\* the run of that user, with writes to the stats log that may fail
MergeNext ==
    \/ SpawnUser
    \/ FinishSpawn
    \/ SyncReceive
    \/ SyncWriteFailed
    \/ SyncEmpty
    \/ TriggerShutdown
    \/ Sleep
    \/ JoinUsers
    \/ DrainReceive
    \/ DrainEmpty
    \/ RunTestStop
    \/ Interrupt
    \/ \E u \in Users : UserSendRequestNamed(u, Endpoints)
    \/ \E u \in Users : UserSendUpdate(u)
    \/ \E u \in Users : UserExit(u)

SpecMerge == MergeInit /\ [][MergeNext]_vars

\* the options the running report depends on, as setup lets them through: a worker
\* has statistics and no --only-summary, and --no-stats goes without --only-summary
ReportConfigurations ==
    {c \in {[DefaultConfiguration EXCEPT !.no_stats = o[1], !.only_summary = o[2],
                                         !.worker = o[3]] :
                o \in BOOLEAN \X BOOLEAN \X BOOLEAN} :
        /\ c.worker => ~c.no_stats /\ ~c.only_summary
        /\ c.no_stats => ~c.only_summary}

\* launch_users of a run without a run time, with one user; the running report is
\* followed
ReportInit ==
    /\ pc = "spawn"
    /\ tasks = <<>>
    /\ weighted_on_start_tasks = weight_tasks(<<>>)[1]
    /\ weighted_tasks = weight_tasks(<<>>)[2]
    /\ weighted_on_stop_tasks = weight_tasks(<<>>)[3]
    /\ RunIdle
    /\ configuration \in ReportConfigurations
    /\ overflow_checks = TRUE
    /\ attack = [DefaultAttack EXCEPT !.users = 1]
    /\ weighted_users = <<GooseUserNew(0, "http://set", 0)>>
    /\ hash = Digest(attack.task_sets, 0)
    /\ error = ""
    /\ option = ""
    /\ elapsed = 0
    /\ canceled = FALSE
    /\ clock = 0
    /\ hatched_for = 0
    /\ spawned_at = [u \in Users |-> 0]
    /\ test_start_runs = 0
    /\ test_stop_runs = 0
    /\ logger_thread = "none"
    /\ throttle_thread = "none"
    /\ throttle_tokens = 0
    /\ throttle_window = <<>>
    /\ thread_users = <<>>
    /\ statistics_timer = <<0>>
    /\ display_running_statistics = FALSE
    /\ last_report = <<>>
    /\ LaunchIdle

\* the run of the main loop, second by second, until ctrl-c ends it
ReportNext ==
    \/ SpawnUser
    \/ FinishSpawn
    \/ SyncEmpty
    \/ TriggerShutdown
    \/ Sleep
    \/ JoinUsers
    \/ DrainEmpty
    \/ RunTestStop
    \/ Interrupt
    \/ \E u \in Users : UserExit(u)

SpecReport == ReportInit /\ [][ReportNext]_vars

\* launch_users with users whose task bodies may panic: the default options,
\* statistics on
PanicInit ==
    /\ Init
    /\ configuration = DefaultConfiguration
    /\ overflow_checks = TRUE

PanicNext ==
    \/ Next
    \/ \E u \in Users : UserPanic(u)

SpecPanic == PanicInit /\ [][PanicNext]_vars

\* the options with a stats log file, in each of its formats
LogConfigurations ==
    {[DefaultConfiguration EXCEPT !.stats_log_file = TRUE, !.stats_log_format = format] :
        format \in StatsLogFormats}

\* launch_users is at its spawn loop, as in Init, with a stats log file to write
LogInit ==
    /\ pc = "spawn"
    /\ tasks = <<>>
    /\ weighted_on_start_tasks = weight_tasks(<<>>)[1]
    /\ weighted_tasks = weight_tasks(<<>>)[2]
    /\ weighted_on_stop_tasks = weight_tasks(<<>>)[3]
    /\ RunIdle
    /\ configuration \in LogConfigurations
    /\ overflow_checks = TRUE
    /\ attack = [DefaultAttack EXCEPT !.users = NumUsers]
    /\ weighted_users = [k \in 1..NumUsers |-> GooseUserNew(0, "http://set", 0)]
    /\ hash = Digest(attack.task_sets, 0)
    /\ error = ""
    /\ option = ""
    /\ elapsed = 0
    /\ canceled = FALSE
    /\ clock = 0
    /\ hatched_for = 0
    /\ spawned_at = [u \in Users |-> 0]
    /\ test_start_runs = 0
    /\ test_stop_runs = 0
    /\ logger_thread = "none"
    /\ throttle_thread = "none"
    /\ throttle_tokens = 0
    /\ throttle_window = <<>>
    /\ thread_users = <<>>
    /\ statistics_timer = <<>>
    /\ display_running_statistics = FALSE
    /\ last_report = <<>>
    /\ LaunchIdle

\* the run from the spawn loop on, with the requests of the users logged
SpecLog == LogInit /\ [][Next]_vars

\* the options with a throttle, statistics off
ThrottleConfigurations ==
    {[DefaultConfiguration EXCEPT !.throttle_requests = <<r>>, !.no_stats = TRUE,
                                  !.hatch_rate = MaxHatchRate] :
        r \in 1..MaxThrottle}

\* launch_users is about to set up the throttle: the weights are applied, NumUsers
\* users are constructed, no hook is defined and no run time set
ThrottleInit ==
    /\ pc = "throttle"
    /\ tasks = <<>>
    /\ weighted_on_start_tasks = weight_tasks(<<>>)[1]
    /\ weighted_tasks = weight_tasks(<<>>)[2]
    /\ weighted_on_stop_tasks = weight_tasks(<<>>)[3]
    /\ RunIdle
    /\ configuration \in ThrottleConfigurations
    /\ overflow_checks = TRUE
    /\ attack = [DefaultAttack EXCEPT !.users = NumUsers]
    /\ weighted_users = [k \in 1..NumUsers |-> GooseUserNew(0, "http://set", 0)]
    /\ hash = Digest(attack.task_sets, 0)
    /\ error = ""
    /\ option = ""
    /\ elapsed = 0
    /\ canceled = FALSE
    /\ clock = 0
    /\ hatched_for = 0
    /\ spawned_at = [u \in Users |-> 0]
    /\ test_start_runs = 0
    /\ test_stop_runs = 0
    /\ logger_thread = "none"
    /\ throttle_thread = "none"
    /\ throttle_tokens = 0
    /\ throttle_window = <<>>
    /\ thread_users = <<>>
    /\ statistics_timer = <<>>
    /\ display_running_statistics = FALSE
    /\ last_report = <<>>
    /\ LaunchIdle

\* the run from the throttle's setup on: the users ask for permits, the throttle
\* thread lets tokens out, the run ends on ctrl-c
ThrottleNext ==
    \/ SetupThrottle
    \/ ThrottleDrain
    \/ SpawnUser
    \/ FinishSpawn
    \/ SyncEmpty
    \/ TriggerShutdown
    \/ Sleep
    \/ JoinUsers
    \/ DrainEmpty
    \/ RunTestStop
    \/ Interrupt
    \/ \E u \in Users : UserThrottleSend(u)
    \/ \E u \in Users : UserThrottleWait(u)
    \/ \E u \in Users : UserThrottleResume(u)
    \/ \E u \in Users : UserThrottleCancel(u)
    \/ \E u \in Users : UserExit(u)

SpecThrottle == ThrottleInit /\ [][ThrottleNext]_vars

\* the supervisor goes on when it can, and a user that was sent EXIT leaves, at the
\* end of its task or out of its wait for a permit
FairSpecThrottle ==
    /\ SpecThrottle
    /\ WF_vars(TriggerShutdown)
    /\ WF_vars(JoinUsers)
    /\ WF_vars(DrainEmpty)
    /\ WF_vars(RunTestStop)
    /\ \A u \in Users : WF_vars(UserExit(u) \/ UserThrottleCancel(u))

\* the options a whole run is followed on
RunConfigurations ==
    {[DefaultConfiguration EXCEPT !.host = h, !.hatch_rate = rate, !.users = n,
                                  !.run_time = t, !.manager = mode[1], !.worker = mode[2],
                                  !.no_stats = stats[1], !.status_codes = stats[2],
                                  !.debug_log_file = threads,
                                  !.throttle_requests = IF threads THEN <<1>> ELSE <<>>] :
        h \in {"", "http://cli"},
        rate \in {0} \cup {r \in 1..MaxHatchRate : MaxHatchRate % r = 0},
        n \in {<<>>} \cup {<<k>> : k \in 0..NumUsers},
        t \in 0..MaxRunTime,
        mode \in {<<FALSE, FALSE>>, <<TRUE, FALSE>>, <<FALSE, TRUE>>},
        stats \in {<<FALSE, FALSE>>, <<TRUE, TRUE>>},
        threads \in BOOLEAN}

\* the TaskSets a whole run is followed on: none, one with its own host, one without
RunTaskSetLists ==
    {<<>>} \cup {WithTaskSetsIndex(<<[weight |-> 1, host |-> h]>>) :
                     h \in {<<>>, <<"http://set">>}}

\* GooseAttack::initialize, then the TaskSets and the hooks registered and the default
\* host set
RunInit ==
    /\ pc = "setup"
    /\ tasks = <<>>
    /\ weighted_on_start_tasks = <<>>
    /\ weighted_tasks = <<>>
    /\ weighted_on_stop_tasks = <<>>
    /\ RunIdle
    /\ configuration \in RunConfigurations
    /\ overflow_checks = TRUE
    /\ attack \in {[DefaultAttack EXCEPT !.task_sets = ts, !.host = h,
                                          !.test_start_task = hooks[1],
                                          !.test_stop_task = hooks[2]] :
                        ts \in RunTaskSetLists, h \in DefaultHostOptions,
                        hooks \in BOOLEAN \X BOOLEAN}
    /\ AttackIdle
    /\ LaunchIdle

\* a whole run, from setup to the return of execute; the users send no requests
RunNext ==
    \/ Setup
    \/ ExecuteValidate
    \/ ApplyWeights
    \/ WeightTaskSetUsers
    \/ StartAttack
    \/ RunTestStart
    \/ SetupLogger
    \/ SetupThrottle
    \/ SpawnUser
    \/ FinishSpawn
    \/ SyncEmpty
    \/ TriggerShutdown
    \/ Sleep
    \/ JoinUsers
    \/ DrainEmpty
    \/ RunTestStop
    \/ Interrupt
    \/ \E u \in Users : UserExit(u)

SpecRun == RunInit /\ [][RunNext]_vars

\* a format neither log knows
UnknownFormat == "xml"

\* the options the checks of setup and execute are followed on: the statistics and
\* log options, the throttle around its limits, the hatch rate and the mode vary
OptionsConfigurations ==
    {[DefaultConfiguration EXCEPT !.no_stats = stats[1], !.status_codes = stats[2],
                                  !.only_summary = stats[3],
                                  !.stats_log_file = files[1],
                                  !.debug_log_file = files[2],
                                  !.stats_log_format = formats[1],
                                  !.debug_log_format = formats[2],
                                  !.throttle_requests = throttle,
                                  !.hatch_rate = rate, !.users = n,
                                  !.manager = mode[1], !.worker = mode[2]] :
        stats \in BOOLEAN \X BOOLEAN \X BOOLEAN,
        files \in BOOLEAN \X BOOLEAN,
        formats \in {<<f, "json">> : f \in StatsLogFormats \cup {UnknownFormat}}
                        \cup {<<"json", f>> : f \in StatsLogFormats \cup {UnknownFormat}},
        throttle \in {<<>>, <<0>>, <<1>>, <<MaxThrottle>>, <<MaxThrottleRequests>>,
                      <<MaxThrottleRequests + 1>>},
        rate \in {0} \cup {r \in 1..MaxHatchRate : MaxHatchRate % r = 0},
        n \in {<<>>, <<NumUsers>>},
        mode \in {<<FALSE, FALSE>>, <<TRUE, FALSE>>, <<FALSE, TRUE>>}}

\* GooseAttack::initialize with the options parsed, none or one TaskSet registered
OptionsInit ==
    /\ pc = "setup"
    /\ tasks = <<>>
    /\ weighted_on_start_tasks = <<>>
    /\ weighted_tasks = <<>>
    /\ weighted_on_stop_tasks = <<>>
    /\ RunIdle
    /\ configuration \in OptionsConfigurations
    /\ overflow_checks = TRUE
    /\ attack \in {[DefaultAttack EXCEPT !.task_sets = ts] :
                        ts \in {<<>>, WithTaskSetsIndex(<<[weight |-> 1,
                                                          host |-> <<"http://set">>]>>)}}
    /\ AttackIdle
    /\ LaunchIdle

\* a whole run on these options
SpecOptions == OptionsInit /\ [][RunNext]_vars

\* the stats log options as they can be given: the format is a free string
ConstructedConfigurations ==
    {[DefaultConfiguration EXCEPT !.stats_log_file = file, !.stats_log_format = format] :
        file \in BOOLEAN, format \in StatsLogFormats \cup {UnknownFormat}}

\* a GooseAttack of either public constructor, with one TaskSet registered:
\* GooseAttack::initialize has called setup when it returns, so execute finds the
\* attack before setup's checks in the model; initialize_with_config returns the
\* attack as constructed, and execute is called on it
ConstructedInit ==
    /\ pc \in {"setup", "validate"}
    /\ tasks = <<>>
    /\ weighted_on_start_tasks = <<>>
    /\ weighted_tasks = <<>>
    /\ weighted_on_stop_tasks = <<>>
    /\ RunIdle
    /\ configuration \in ConstructedConfigurations
    /\ overflow_checks = TRUE
    /\ attack = [DefaultAttack EXCEPT
                    !.task_sets = WithTaskSetsIndex(<<[weight |-> 1,
                                                      host |-> <<"http://set">>]>>)]
    /\ AttackIdle
    /\ LaunchIdle

\* a whole run of it, with the requests of its users
ConstructedNext ==
    \/ RunNext
    \/ SyncReceive
    \/ DrainReceive
    \/ \E u \in Users : UserSendRequest(u)
    \/ \E u \in Users : UserSendUpdate(u)

SpecConstructed == ConstructedInit /\ [][ConstructedNext]_vars

\* ------------------------------------------------------------ the plans, as claimed

Phases == {"on_start", "main", "on_stop"}

\* the plan of a phase
Plan(p) ==
    CASE p = "on_start" -> weighted_on_start_tasks
      [] p = "main" -> weighted_tasks
      [] p = "on_stop" -> weighted_on_stop_tasks

\* whether a task belongs to a phase
Eligible(p, task) ==
    CASE p = "on_start" -> task.on_start
      [] p = "main" -> ~task.on_start /\ ~task.on_stop
      [] p = "on_stop" -> task.on_stop

\* the greatest number that divides every weight of ts
GreatestCommonDivisor(ts) ==
    CHOOSE d \in 1..(MaxWeight + 1) :
        /\ \A i \in DOMAIN ts : ts[i].weight % d = 0
        /\ \A e \in 1..(MaxWeight + 1) :
               (\A i \in DOMAIN ts : ts[i].weight % e = 0) => e <= d

\* the sum of the weights of the tasks at the positions in S
RECURSIVE SumOfWeights(_)
SumOfWeights(S) ==
    IF S = {} THEN 0
    ELSE LET i == CHOOSE x \in S : TRUE
         IN  tasks[i].weight + SumOfWeights(S \ {i})

\* the positions of the tasks of task i's sequence group in phase p
GroupOf(p, i) ==
    {j \in DOMAIN tasks : Eligible(p, tasks[j]) /\ tasks[j].sequence = tasks[i].sequence}

\* whether a task index occurs anywhere in a plan
Occurs(plan, index) == \E b \in DOMAIN plan : Count(plan[b], index) > 0

\* the sequence number of the task with a tasks_index
SequenceOf(index) == tasks[index + 1].sequence

\* C1: every task is in exactly one inner bucket of each plan of its phases, weight/g
\* times, g the greatest common divisor of the weights of all tasks of the TaskSet, and
\* that bucket is as long as the sum of weight/g over the tasks of its sequence group.
C1_WeightedByGcd ==
    pc = "weighted" =>
        LET g == GreatestCommonDivisor(tasks)
        IN  \A p \in Phases : \A i \in DOMAIN tasks :
                Eligible(p, tasks[i]) =>
                    \E b \in DOMAIN Plan(p) :
                        /\ Count(Plan(p)[b], tasks[i].tasks_index) * g = tasks[i].weight
                        /\ Len(Plan(p)[b]) * g = SumOfWeights(GroupOf(p, i))
                        /\ \A c \in DOMAIN Plan(p) \ {b} :
                               Count(Plan(p)[c], tasks[i].tasks_index) = 0

\* tasks of weights 2 and 2 in the main phase: the gcd is 2 and each is planned once
C1_Witness ==
    /\ pc = "weighted"
    /\ Len(tasks) = 2
    /\ tasks[1].weight = 2 /\ tasks[2].weight = 2
    /\ weighted_tasks = << <<0, 1>> >>

\* C2: in each plan the buckets of sequenced tasks are in strictly ascending sequence
\* number, the unsequenced bucket is after all of them, and inside a bucket the tasks
\* are in declaration order with the repetitions of one task contiguous.
C2_BucketsOrdered ==
    pc = "weighted" =>
        \A p \in Phases :
            LET plan == Plan(p)
            IN  /\ \A b \in DOMAIN plan : \A i, j \in DOMAIN plan[b] :
                       /\ SequenceOf(plan[b][i]) = SequenceOf(plan[b][j])
                       /\ i < j => plan[b][i] <= plan[b][j]
                /\ \A b, c \in DOMAIN plan :
                       (b < c /\ plan[c] # <<>>) =>
                           /\ plan[b] # <<>>
                           /\ SequenceOf(plan[b][1]) > 0
                           /\ \/ SequenceOf(plan[c][1]) = 0
                              \/ SequenceOf(plan[b][1]) < SequenceOf(plan[c][1])
                /\ \A b \in DOMAIN plan : (b < Len(plan)) => plan[b] # <<>>

\* a main task of sequence 2 declared before one of sequence 1: the plan has them sorted
C2_Witness ==
    /\ pc = "weighted"
    /\ Len(tasks) = 2
    /\ tasks[1].sequence = 2 /\ tasks[2].sequence = 1
    /\ tasks[1].weight = 2 /\ tasks[2].weight = 1
    /\ weighted_tasks = << <<1>>, <<0, 0>> >>

\* ------------------------------------------------------------ the run, as claimed

\* whether the user is part-way through the bucket that holds task i in phase p
InsideBucketOf(p, i) ==
    /\ user_phase = p
    /\ weighted_bucket \in DOMAIN Plan(p)
    /\ Count(Plan(p)[weighted_bucket], tasks[i].tasks_index) > 0
    /\ weighted_bucket_position > 1

\* whether the user has made a whole number of passes through that bucket: the main
\* loop may be left part-way, the on-start and on-stop plans are always run to the end
AfterWholePasses(p, i) ==
    IF p = "main" THEN user_phase = "main" /\ ~InsideBucketOf(p, i)
    ELSE ~InsideBucketOf(p, i)

SequenceRank(index) ==
    IF SequenceOf(index) = 0 THEN MaxSequence + 1 ELSE SequenceOf(index)

\* whether the user has just completed an outer iteration of the main plan
IterationComplete ==
    /\ user_phase = "main"
    /\ iteration_log # <<>>
    /\ weighted_bucket = 1 /\ weighted_bucket_position = 1

\* C5: within one outer iteration of the main plan every execution of a lower
\* sequence precedes every execution of a higher one and the unsequenced tasks run
\* last; a complete iteration has run each main task weight/g times.
C5_SequenceOrder ==
    /\ \A a \in 1..(Len(iteration_log) - 1) :
           SequenceRank(iteration_log[a]) <= SequenceRank(iteration_log[a + 1])
    /\ IterationComplete =>
           \A i \in DOMAIN tasks :
               Count(iteration_log, tasks[i].tasks_index) * GreatestCommonDivisor(tasks)
                   = IF Eligible("main", tasks[i]) THEN tasks[i].weight ELSE 0

\* [C w=2 unsequenced, A seq=1]: one outer iteration has run A, then C twice
C5_Witness ==
    /\ IterationComplete
    /\ Len(tasks) = 2
    /\ tasks[1].sequence = 0 /\ tasks[1].weight = 2
    /\ tasks[2].sequence = 1 /\ tasks[2].weight = 1
    /\ iteration_log = <<1, 0, 0>>

\* C3: a task is in on_start_plan iff its on_start flag is set, in on_stop_plan iff its
\* on_stop flag is set, and in main_plan iff neither is set.
C3_PhaseByFlags ==
    pc = "weighted" =>
        \A i \in DOMAIN tasks :
            /\ Occurs(weighted_on_start_tasks, tasks[i].tasks_index) <=> tasks[i].on_start
            /\ Occurs(weighted_on_stop_tasks, tasks[i].tasks_index) <=> tasks[i].on_stop
            /\ Occurs(weighted_tasks, tasks[i].tasks_index)
                   <=> (~tasks[i].on_start /\ ~tasks[i].on_stop)

\* a task with both flags: in the on_start and the on_stop plan and not in the main plan
C3_Witness ==
    /\ pc = "weighted"
    /\ Len(tasks) = 1
    /\ tasks[1].on_start /\ tasks[1].on_stop
    /\ weighted_on_start_tasks = << <<0>> >>
    /\ weighted_on_stop_tasks = << <<0>> >>
    /\ weighted_tasks = <<>>

\* ------------------------------------------------------------ the statistics, as claimed

\* the supervisor takes the oldest message out of the receiver, in the periodic sync
\* or in the final drain
Receives == parent_receiver # <<>> /\ parent_receiver' = Tail(parent_receiver)

\* the message it takes
Received == Head(parent_receiver)

\* the entry of the received message's endpoint, before and after the merge
EntryBefore == GetOrNew(Key(Received))
EntryAfter == requests'[Key(Received)]

\* success_count + fail_count over the endpoints in keys
RECURSIVE SumCounts(_, _)
SumCounts(map, keys) ==
    IF keys = {} THEN 0
    ELSE LET key == CHOOSE k \in keys : TRUE
         IN  map[key].success_count + map[key].fail_count + SumCounts(map, keys \ {key})

TotalCounts(map) == SumCounts(map, DOMAIN map)

\* the non-update events among the first n of a user's events
RECURSIVE NonUpdates(_)
NonUpdates(s) ==
    IF s = <<>> THEN 0
    ELSE (IF Head(s).update THEN 0 ELSE 1) + NonUpdates(Tail(s))

\* the non-update events the users 1..n have emitted
RECURSIVE NonUpdatesEmittedBy(_)
NonUpdatesEmittedBy(n) ==
    IF n = 0 THEN 0 ELSE NonUpdates(emitted[n]) + NonUpdatesEmittedBy(n - 1)

\* the value of a histogram at a bucket, 0 where there is none
At(map, k) == IF k \in DOMAIN map THEN map[k] ELSE 0

\* the response-time data and the status-code histogram of an entry
Recorded(m) ==
    <<m.response_times, m.min_response_time, m.max_response_time,
      m.total_response_time, m.response_time_counter, m.status_code_counts>>

\* the count an update event takes 1 from
Decremented(m) == IF Received.success THEN m.fail_count ELSE m.success_count

\* C6: with statistics enabled and reset_stats off, when launch_users returns the sum
\* over all endpoints of success_count + fail_count is the number of non-update events
\* the users emitted, and no merge of an update event changes that sum
C6_EventConservation ==
    /\ [](pc = "done" /\ ~configuration.no_stats /\ ~configuration.reset_stats
            => TotalCounts(requests) = NonUpdatesEmittedBy(NumUsers))
    /\ [][Receives /\ Received.update /\ ~configuration.reset_stats
            => pc' # "panicked" /\ TotalCounts(requests') = TotalCounts(requests)]_vars

\* C7: every update event the supervisor merges, in the periodic sync and in the final
\* drain alike, moves one count between fail_count and success_count of its endpoint
\* (success: success + 1 and fail - 1, otherwise the inverse) and leaves the
\* endpoint's response-time data and status-code histogram as they were
C7_UpdateMovesOneCount ==
    [][Receives /\ Received.update
         => /\ pc' # "panicked"
            /\ Key(Received) \in DOMAIN requests'
            /\ IF Received.success
                 THEN /\ EntryAfter.success_count = EntryBefore.success_count + 1
                      /\ EntryAfter.fail_count = EntryBefore.fail_count - 1
                 ELSE /\ EntryAfter.success_count = EntryBefore.success_count - 1
                      /\ EntryAfter.fail_count = EntryBefore.fail_count + 1
            /\ Recorded(EntryAfter) = Recorded(EntryBefore)]_vars

\* C8: merging a non-update event creates the entry of its (method, name) if there is
\* none, adds 1 to success_count or to fail_count as the event's success flag says and
\* leaves the other, records the response time, and adds 1 to the bucket of the
\* event's status code if and only if status codes are tracked
C8_NormalEventMerged ==
    [][Receives /\ ~Received.update
         => /\ pc' # "panicked"
            /\ Key(Received) \in DOMAIN requests'
            /\ IF Received.success
                 THEN /\ EntryAfter.success_count = EntryBefore.success_count + 1
                      /\ EntryAfter.fail_count = EntryBefore.fail_count
                 ELSE /\ EntryAfter.success_count = EntryBefore.success_count
                      /\ EntryAfter.fail_count = EntryBefore.fail_count + 1
            /\ EntryAfter.response_time_counter = EntryBefore.response_time_counter + 1
            /\ EntryAfter.total_response_time =
                   EntryBefore.total_response_time + Received.response_time
            /\ \E bucket \in DOMAIN EntryAfter.response_times :
                   /\ EntryAfter.response_times[bucket] =
                          At(EntryBefore.response_times, bucket) + 1
                   /\ \A other \in DOMAIN EntryAfter.response_times \ {bucket} :
                          EntryAfter.response_times[other] =
                              At(EntryBefore.response_times, other)
            /\ EntryAfter.min_response_time <= Received.response_time
            /\ EntryAfter.max_response_time >= Received.response_time
            /\ IF configuration.status_codes
                 THEN /\ Received.status_code \in DOMAIN EntryAfter.status_code_counts
                      /\ EntryAfter.status_code_counts[Received.status_code] =
                             At(EntryBefore.status_code_counts, Received.status_code) + 1
                 ELSE EntryAfter.status_code_counts = EntryBefore.status_code_counts]_vars

\* C9: every user emits an update event after the normal event it reclassifies, with
\* reset_stats or without, and no count goes below zero: the decrement of a merged
\* update does not underflow, and at zero it leaves the count at zero and the run goes on
C9_NoUnderflow ==
    [][Receives /\ Received.update /\ pc = "sync"
         => /\ pc' # "panicked"
            /\ Decremented(EntryAfter) =
                   IF Decremented(EntryBefore) = 0 THEN 0
                   ELSE Decremented(EntryBefore) - 1]_vars

\* C10: the supervisor merges the events of every user in the order the user emitted
\* them, whatever the other users emit and whenever the supervisor syncs
C10_PerUserOrder ==
    \A u \in Users :
        /\ Len(merged[u]) <= Len(emitted[u])
        /\ merged[u] = SubSeq(emitted[u], 1, Len(merged[u]))

\* both users have an event merged, and one of them an update after its normal event
C10_Witness ==
    \E u, v \in Users :
        /\ u # v
        /\ Len(merged[u]) >= 2
        /\ ~merged[u][1].update
        /\ merged[u][2].update
        /\ Len(merged[v]) >= 1

\* ------------------------------------------------------- the run, as claimed

\* the EXIT commands sent to a user so far: those in its channel and the one it took
ExitsSent(u) ==
    Len(user_channels[u]) + IF user_state[u] = "exited" THEN 1 ELSE 0

\* the main loop has met a shutdown trigger (an error after that is test_stop's)
ShutDown ==
    \/ pc \in {"join", "drain", "test_stop", "done"}
    \/ pc = "error" /\ users > 0

\* the time since the spawn loop finished, in seconds, whole or not
RunTimeReached ==
    attack.run_time > 0 /\ clock - hatched_for >= attack.run_time * MaxHatchRate

\* C11: once a shutdown trigger has fired every spawned user has been sent exactly one
\* EXIT, no EXIT is sent to anyone before or to a user that was not spawned, and an
\* EXIT is sent only when the run time has passed or the run is canceled
C11_ExitOncePerSpawnedUser ==
    /\ [](\A u \in Users :
             ExitsSent(u) = IF ShutDown /\ u <= users THEN 1 ELSE 0)
    /\ [][(\E u \in Users : Len(user_channels'[u]) > Len(user_channels[u]))
             => RunTimeReached \/ canceled]_vars

\* the run time has passed without an interrupt, both users were sent EXIT and are gone
C11_Witness ==
    /\ pc = "done"
    /\ users = 2
    /\ ~canceled
    /\ RunTimeReached
    /\ \A u \in 1..2 : user_state[u] = "exited" /\ user_channels[u] = <<>>

\* C12: an interrupt that comes while the users are hatched is recorded in the
\* cancellation flag (and the run goes on to its shutdown sequence)
C12_InterruptRecordedWhileHatching ==
    [][Interrupt /\ pc = "spawn" => canceled' /\ pc' # "killed"]_vars

\* C13: with a run time and without an interrupt, the shutdown trigger fires only when
\* run_time seconds have passed since the spawn loop finished
C13_RunTimeFromSpawnCompletion ==
    attack.run_time > 0 /\ ~canceled /\ ShutDown => RunTimeReached

\* hatching two users took time, the longest run time has passed since, and the run
\* has ended without an interrupt
C13_Witness ==
    /\ pc = "done"
    /\ ~canceled
    /\ attack.run_time = MaxRunTime
    /\ users = 2
    /\ hatched_for > 0
    /\ clock - hatched_for = MaxRunTime * MaxHatchRate

\* the spawn interval 1 / hatch_rate seconds, in the model's unit of time
SpawnInterval == MaxHatchRate \div configuration.hatch_rate

\* C14: users are spawned one at a time, the N-th user (in weighted_users order) is
\* spawned N - 1 spawn intervals after the first, and the spawn loop that spawned N
\* users ends within one interval of N - 1 intervals after the first spawn
C14_HatchPacing ==
    /\ [](\A u \in Users :
             u <= users => spawned_at[u] - spawned_at[1] = (u - 1) * SpawnInterval)
    /\ [](users > 0 /\ pc \in {"sync", "trigger", "join", "drain", "test_stop", "done"}
             => /\ hatched_for - spawned_at[1] >= (users - 2) * SpawnInterval
                /\ hatched_for - spawned_at[1] <= users * SpawnInterval)
    /\ [][users' = users \/ users' = users + 1]_vars

\* two users are spawned at the highest hatch rate, the second one interval after the
\* first, and the spawn loop has ended
C14_Witness ==
    /\ pc = "sync"
    /\ users = 2
    /\ configuration.hatch_rate = MaxHatchRate
    /\ spawned_at[2] - spawned_at[1] = 1

\* C15: a run that ends with an error has spawned no user
C15_ErrorsBeforeSpawn ==
    pc = "error" => users = 0

\* C20: the function of a defined test_start_task never runs twice, and it has run
\* (once) when the logger thread or the throttle thread is spawned, when a user is
\* spawned, and when the run is over
C20_TestStartOnceAndFirst ==
    /\ test_start_runs <= 1
    /\ attack.test_start_task /\ ~configuration.worker
           /\ (\/ logger_thread # "none"
               \/ throttle_thread # "none"
               \/ users > 0
               \/ pc = "done")
         => test_start_runs = 1

\* a test_start_task is defined and has run, the logger and the throttle are spawned
\* after it and the first user after them
C20_Witness ==
    /\ attack.test_start_task
    /\ test_start_runs = 1
    /\ logger_thread = "running"
    /\ throttle_thread = "running"
    /\ pc = "spawn"
    /\ users = 1

\* ------------------------------------------------ setup and execute, as claimed

\* execute has returned Ok up to the call of launch_users in stand-alone mode
LaunchEntered == pc = "launch"

\* the users are constructed (execute is past weight_task_set_users, stand-alone or manager)
Constructed == pc \in {"hash", "launch"} /\ ~configuration.worker

\* the TaskSet a constructed user was made for
TaskSetOf(user) == attack.task_sets[user.task_sets_index + 1]

\* the CLI host is empty and some TaskSet has neither its own host nor a default host
Unresolvable ==
    /\ configuration.host = ""
    /\ attack.host = <<>>
    /\ \E i \in DOMAIN attack.task_sets : attack.task_sets[i].host = <<>>

\* C16: with an empty CLI host and a TaskSet that has neither a host of its own nor a
\* default host, execute ends with an error and launch_users is never entered;
\* otherwise the base URL of every constructed user is the CLI host if that is set,
\* else the host of its TaskSet if that is set, else the default host
C16_HostPrecedence ==
    /\ Unresolvable => pc \in {"setup", "validate", "execute", "weighted", "hash", "error"}
    /\ \A k \in DOMAIN weighted_users :
           weighted_users[k].base_url =
               IF configuration.host # "" THEN configuration.host
               ELSE IF TaskSetOf(weighted_users[k]).host # <<>>
                 THEN TaskSetOf(weighted_users[k]).host[1]
               ELSE attack.host[1]

\* stand-alone: one TaskSet has a host and the other has none, no default host and no
\* CLI host, and execute has ended with an error before any user was constructed
C16_Witness ==
    /\ Unresolvable
    /\ ~configuration.manager /\ ~configuration.worker
    /\ \E i \in DOMAIN attack.task_sets : attack.task_sets[i].host = <<"http://set">>
    /\ pc = "error" /\ error = "InvalidOption"
    /\ weighted_users = <<>>

\* C17: weight_task_set_users constructs exactly as many users as setup took from
\* --users (or from the number of CPUs), zero users for --users 0 included
C17_ConstructsRequestedUsers ==
    Constructed => Len(weighted_users) = attack.users

\* the length of V up to and with the TaskSet at position i
RECURSIVE SharesThrough(_)
SharesThrough(i) ==
    IF i = 0 THEN 0
    ELSE SharesThrough(i - 1)
             + attack.task_sets[i].weight \div GreatestCommonDivisor(attack.task_sets)

\* V[k mod |V|], k counted from 0: the index of the TaskSet whose repetitions cover it
AssignedTaskSet(k) ==
    LET v == k % SharesThrough(Len(attack.task_sets))
    IN  CHOOSE index \in 0..Len(attack.task_sets) - 1 :
            SharesThrough(index) <= v /\ v < SharesThrough(index + 1)

\* how many constructed users have the TaskSet of this index
UsersOf(index) ==
    Cardinality({k \in DOMAIN weighted_users : weighted_users[k].task_sets_index = index})

\* C18: the k-th constructed user has TaskSet V[k mod |V|], V being the TaskSet indices
\* in registration order, each weight / gcd times; and when the number of users is a
\* multiple of |V| the users of any two TaskSets are in the ratio of their weights
C18_WeightedAssignment ==
    Constructed =>
        /\ \A k \in DOMAIN weighted_users :
               weighted_users[k].task_sets_index = AssignedTaskSet(k - 1)
        /\ Len(weighted_users) % SharesThrough(Len(attack.task_sets)) = 0 =>
               \A i, j \in DOMAIN attack.task_sets :
                   UsersOf(i - 1) * attack.task_sets[j].weight
                       = UsersOf(j - 1) * attack.task_sets[i].weight

\* TaskSets of weights 2 and 2, so V = 0, 1 after the division by the gcd, and four
\* users: V is gone through twice and each TaskSet has two users
C18_Witness ==
    /\ Constructed
    /\ Len(attack.task_sets) = 2
    /\ attack.task_sets[1].weight = 2 /\ attack.task_sets[2].weight = 2
    /\ Len(weighted_users) = 4
    /\ UsersOf(0) = 2 /\ UsersOf(1) = 2
    /\ weighted_users[3].task_sets_index = 0

\* C19: when launch_users is entered, the load-test hash of every constructed user is
\* the hash execute has stored in the statistics
C19_UsersCarryStatsHash ==
    LaunchEntered => \A k \in DOMAIN weighted_users : weighted_users[k].load_test_hash = hash

\* ---------------------------------------------------------------------------
\* the option checks, as claimed
\* ---------------------------------------------------------------------------

\* the run is refused with an InvalidOption and no user is spawned: the run is at
\* its first steps (or interrupted there) or it has ended with that error
RefusedAsInvalidOption ==
    /\ users = 0
    /\ pc \in {"setup", "validate", "killed", "error"}
    /\ pc = "error" /\ attack.task_sets # <<>> => error = "InvalidOption"

\* C24: with --no-stats and any of --status-codes, --only-summary or a stats log file,
\* setup returns InvalidOption (naming --no-stats) and no user is ever spawned
C24_NoStatsConflicts ==
    /\ configuration.no_stats
    /\ \/ configuration.status_codes
       \/ configuration.only_summary
       \/ configuration.stats_log_file
    => /\ users = 0
       /\ pc \in {"setup", "killed", "error"}
       /\ pc = "error" => error = "InvalidOption" /\ option = "--no-stats"

\* --no-stats with --only-summary alone has been refused
C24_Witness ==
    /\ configuration.no_stats
    /\ configuration.only_summary
    /\ ~configuration.status_codes
    /\ ~configuration.stats_log_file
    /\ pc = "error"
    /\ error = "InvalidOption"

\* C25: setup returns InvalidOption when the stats log format is not json and there is
\* no stats log file, and when the format is none of json, csv, raw; likewise when the
\* debug log format is not json and there is no debug log file, and when it is none
\* of json, raw
C25_LogFormats ==
    \/ configuration.stats_log_format # "json" /\ ~configuration.stats_log_file
    \/ configuration.stats_log_format \notin {"json", "csv", "raw"}
    \/ configuration.debug_log_format # "json" /\ ~configuration.debug_log_file
    \/ configuration.debug_log_format \notin {"json", "raw"}
    => /\ users = 0
       /\ pc \in {"setup", "killed", "error"}
       /\ pc = "error" => error = "InvalidOption"

\* a debug log file in the csv format, which only the stats log knows, has been refused
C25_Witness ==
    /\ configuration.debug_log_format = "csv"
    /\ configuration.debug_log_file
    /\ pc = "error"
    /\ option = "--debug-log-format"

\* C26: with a throttle of 0 or of more than 1,000,000 requests per second the run is
\* refused with an InvalidOption before a user is spawned; a throttle from 1 to
\* 1,000,000 is not what a stand-alone run is refused for
C26_ThrottleRange ==
    /\ configuration.throttle_requests # <<>>
           /\ (\/ configuration.throttle_requests[1] = 0
               \/ configuration.throttle_requests[1] > 1000000)
       => RefusedAsInvalidOption
    /\ configuration.throttle_requests # <<>>
           /\ configuration.throttle_requests[1] \in 1..1000000
           /\ ~configuration.manager
           /\ ~configuration.worker
       => option # "--throttle-requests"

\* execute has refused a throttle of 1,000,001
C26_Witness ==
    /\ configuration.throttle_requests = <<1000001>>
    /\ pc = "error"
    /\ option = "--throttle-requests"
    /\ ~configuration.manager

\* C27: with a hatch rate of 0 the run is refused with an InvalidOption before a user
\* is spawned, so that execute goes on, and 1 / hatch_rate is computed, only with a
\* hatch rate of at least 1
C27_HatchRatePositive ==
    /\ configuration.hatch_rate = 0 => RefusedAsInvalidOption
    /\ pc \notin {"setup", "validate", "killed", "error"} \/ users > 0
       => configuration.hatch_rate >= 1

\* execute has refused a hatch rate of 0
C27_Witness ==
    /\ configuration.hatch_rate = 0
    /\ pc = "error"
    /\ option = "--hatch-rate"

\* ---------------------------------------------------------------------------
\* the shutdown, as claimed
\* ---------------------------------------------------------------------------

\* every user that was spawned has exited
AllUsersExited == \A u \in Users : u <= users => user_state[u] = "exited"

\* launch_users has returned after users were spawned and have run
RunOver == pc = "done" \/ (pc = "error" /\ users > 0)

\* C21: the function of a defined test_stop_task runs exactly once per stand-alone
\* run: never twice, never while a spawned user is running, the logger is not yet
\* told to stop or events wait to be drained, and once when the run is over
C21_TestStopOnceAfterShutdown ==
    /\ test_stop_runs <= 1
    /\ test_stop_runs > 0
       => /\ AllUsersExited
          /\ logger_thread # "running"
          /\ parent_receiver = <<>>
    /\ attack.test_stop_task /\ ~configuration.manager /\ ~configuration.worker /\ RunOver
       => test_stop_runs = 1

\* C29: the throttle thread is told to stop only when every spawned user has exited
C29_ThrottleStoppedAfterJoin ==
    [][throttle_thread = "running" /\ throttle_thread' = "stopped" => AllUsersExited]_vars

\* ---------------------------------------------------------------------------
\* the stats log, as claimed
\* ---------------------------------------------------------------------------

\* the rows of the stats log that log a message of user u, in the order written
RowsOf(u) ==
    LET OfUser(line) == line # CsvHeader /\ line.raw_request.user = u
        rows == SelectSeq(stats_log, OfUser)
    IN  [i \in DOMAIN rows |-> rows[i].raw_request]

\* the header lines of the stats log
HeaderLines == {i \in DOMAIN stats_log : stats_log[i] = CsvHeader}

\* C23: with a stats log file, the messages the supervisor has received of each user,
\* those of the final drain included, are each logged as one line, in the order
\* received; in the csv format the header is the first line and is written once, in
\* the other formats there is none
C23_EveryEventLogged ==
    pc # "panicked"
    => /\ \A u \in Users : RowsOf(u) = merged[u]
       /\ HeaderLines = IF configuration.stats_log_format = "csv" /\ stats_log # <<>>
                          THEN {1} ELSE {}

\* ---------------------------------------------------------------------------
\* the throttle, as claimed
\* ---------------------------------------------------------------------------

\* the requests admitted from the start of period i of the window until now
RECURSIVE AdmittedSince(_)
AdmittedSince(i) ==
    IF i > Len(throttle_window) THEN 0
    ELSE throttle_window[i].admitted + AdmittedSince(i + 1)

C30_ShutdownTerminates ==
    pc = "join" ~> pc \in {"done", "error"}

\* the throttle thread has been told to stop with a user suspended at the throttle,
\* and the supervisor waits for the users
C30_Witness ==
    /\ pc = "join"
    /\ throttle_thread = "stopped"
    /\ \E u \in Users : user_state[u] = "acquiring" /\ user_channels[u] # <<>>

\* ---------------------------------------------------------------------------
\* the end of the run, as claimed
\* ---------------------------------------------------------------------------

MergesOne == \E u \in Users : merged'[u] # merged[u]

\* C39: the merge of a message changes the statistics of the key of that message
\* only: the entry of every other key (its counts, response times and status
\* codes) is as before, no other key comes or goes, and the count of users is as
\* before
C39_MergeFrame ==
    [][MergesOne
       => LET key == Key(try_recv(parent_receiver))
          IN  /\ DOMAIN requests' = DOMAIN requests \union {key}
              /\ \A other \in DOMAIN requests \ {key} :
                     requests'[other] = requests[other]
              /\ users' = users]_vars

\* requests of both endpoints have been merged
C39_Witness ==
    /\ Cardinality(DOMAIN requests) = 2
    /\ Len(merged[1]) >= 3

\* C36: a write to the stats log that fails (a message is received in the sync and
\* no line is added to the log) does not end the run: the message is merged all the
\* same, no error is set, and the sync goes on with the next message
C36_FailedWriteOnlyWarned ==
    [][/\ pc = "sync"
       /\ configuration.stats_log_file
       /\ parent_receiver # <<>>
       /\ parent_receiver' = Tail(parent_receiver)
       /\ stats_log' = stats_log
       => LET raw_request == try_recv(parent_receiver)
          IN  /\ merged' = [merged EXCEPT ![raw_request.user] = Append(@, raw_request)]
              /\ requests' # requests
              /\ error' = ""
              /\ pc' = "sync"]_vars

\* the write of the first message has failed, the second message is in the log
C36_Witness ==
    /\ pc = "sync"
    /\ configuration.stats_log_file
    /\ Len(merged[1]) = 2
    /\ RowsOf(1) = <<merged[1][2]>>

\* the requests an entry counts
Counted(m) == m.success_count + m.fail_count

\* C32: with reset_stats and statistics on, the statistics are cleared once: at the
\* end of the first sync after the spawn loop, when the flag statistics_reset is
\* set, and not again; what is merged after that stays in the statistics: no merge
\* ends the run, no endpoint's count goes down, and each request merged adds one
\* to the count of its endpoint
C32_ResetOnceThenKept ==
    [][/\ statistics_reset' # statistics_reset \/ (requests # EmptyMap /\ requests' = EmptyMap)
          => /\ pc = "sync" /\ pc' = "trigger"
             /\ configuration.reset_stats /\ ~configuration.no_stats
             /\ ~statistics_reset /\ statistics_reset'
             /\ requests' = EmptyMap
       /\ pc = "sync" /\ pc' = "trigger" /\ configuration.reset_stats
             /\ ~configuration.no_stats
          => statistics_reset'
       /\ statistics_reset /\ Receives
          => /\ pc' # "panicked"
             /\ \A key \in DOMAIN requests :
                    /\ key \in DOMAIN requests'
                    /\ Counted(requests'[key]) >= Counted(requests[key])
             /\ ~Received.update => Counted(EntryAfter) = Counted(EntryBefore) + 1]_vars

\* a running report is printed in this step
Printed ==
    /\ last_report' # last_report
    /\ last_report' # <<>>
    /\ last_report'[1] = TicksPerSecond

\* C37: a running report is printed only with statistics on, --only-summary off and
\* not on a worker; only at the end of a pass of the main loop whose sync has found
\* the report due (it has set the flag and restarted the timer); two reports in a
\* row are at least RUNNING_STATS_EVERY seconds apart; and the pass that triggers
\* the shutdown prints none
C37_RunningReport ==
    [][/\ Printed
          => /\ ~configuration.no_stats
             /\ ~configuration.only_summary
             /\ ~configuration.worker
             /\ pc = "trigger" /\ pc' = "sync"
             /\ display_running_statistics
             /\ statistics_timer = <<0>>
             /\ last_report'[2] # <<>> => last_report'[2][1] >= ReportTicks
       /\ pc = "trigger" /\ (timer_expired \/ canceled) => last_report' = last_report
       /\ pc \notin {"sync", "trigger"} => last_report' = last_report]_vars

\* a second running report has been printed
C37_Witness ==
    /\ last_report # <<>>
    /\ last_report[2] # <<>>

\* C40: when launch_users formats a message it has received, the stats log format
\* is json, csv or raw: the arm unreachable!() of the match is not taken, whichever
\* public constructor made the GooseAttack
C40_FormatKnown ==
    /\ pc = "sync" /\ ~configuration.no_stats /\ parent_receiver # <<>>
       => configuration.stats_log_format \in StatsLogFormats
    /\ pc # "panicked"

\* C33: a user whose worker has ended in a panic cannot be sent EXIT; the shutdown
\* goes on all the same: every other spawned user is sent EXIT once, the supervisor
\* waits until every worker has ended, drains the events that are left and returns
\* without an error
C33_ShutdownDespitePanic ==
    /\ pc \notin {"error", "panicked"}
    /\ ShutDown
       => \A u \in Users :
              u <= users => user_state[u] = "panicked" \/ ExitsSent(u) = 1
    /\ pc \in {"drain", "test_stop", "done"}
       => \A u \in Users : u <= users => Terminated(u)
    /\ pc = "done"
       => /\ parent_receiver = <<>>
          /\ \A u \in Users : Len(merged[u]) = Len(emitted[u])

\* the run has returned: the first user had panicked before EXIT was sent (its
\* channel is empty), the second has exited on EXIT, and its events were merged
C33_Witness ==
    /\ pc = "done"
    /\ user_state[1] = "panicked"
    /\ user_channels[1] = <<>>
    /\ user_state[2] = "exited"
    /\ merged[2] # <<>>

\* ---------------------------------------------------------------------------
\* the spawn loop, as claimed
\* ---------------------------------------------------------------------------

\* the workers that have been spawned
Spawned == {u \in Users : user_state[u] # "constructed"}

\* C38: stats.users is the number of workers spawned and of the entries pushed for
\* them (worker handle, command channel), and is at most the number of users
\* constructed; the i-th worker spawned has weighted_users_index i - 1 and thread
\* number i, so no two workers share an index
C38_SpawnedUsersIndexed ==
    /\ users = Cardinality(Spawned)
    /\ users = Len(thread_users)
    /\ users <= Len(weighted_users)
    /\ \A i \in DOMAIN thread_users :
           /\ thread_users[i].weighted_users_index = i - 1
           /\ thread_users[i].thread_number = i
    /\ \A i, j \in DOMAIN thread_users :
           thread_users[i].weighted_users_index = thread_users[j].weighted_users_index
           => i = j

\* two workers have been spawned
C38_Witness ==
    /\ users = 2
    /\ Len(thread_users) = 2
    /\ pc = "spawn"

\* C35: the throttle channel holds at most R tokens, R its capacity; setup_throttle
\* sends R - 1 of them (none for R = 1) before a user is spawned, so a slot is free
\* then, and until a first request has been admitted the channel is not full: the
\* first request does not wait
C35_ThrottlePreFilled ==
    throttle_thread # "none"
    => LET R == configuration.throttle_requests[1]
       IN  /\ throttle_tokens <= R
           /\ Len(throttle_window) = 1
              => throttle_tokens = (R - 1) + throttle_window[1].admitted
           /\ users = 0 => throttle_tokens <= R - 1
           /\ Len(throttle_window) < PeriodsInASecond /\ AdmittedSince(1) = 0
              => ~ThrottleFull

\* with R = 1 no token was sent, and the first request was admitted at once
C35_Witness ==
    /\ throttle_thread = "running"
    /\ configuration.throttle_requests = <<1>>
    /\ Len(throttle_window) = 1
    /\ throttle_window[1].admitted = 1
    /\ throttle_tokens = 1

\* C34: once the run timer has expired in the spawn loop no further user is
\* spawned; the users spawned are at most as many as were asked for; and every
\* user that was spawned is sent EXIT when the run is shut down
C34_NoSpawnAfterExpiry ==
    [][/\ pc = "spawn" /\ timer_expired => users' = users
       /\ users' <= attack.users
       /\ ShutDown' => \A u \in Users : u <= users' => ExitsSent(u)' = 1]_vars

====
